---- MODULE Spec2Model ----
(***************************************************************************)
(* Device synchronisation protocol of the DigSignature server              *)
(* (scheduling/admin.py: device_check_server, device_sync_confirmation;    *)
(* players/views.py: api_register_player) together with the schedule       *)
(* resolver and the sync-hash engine it uses.                              *)
(*                                                                         *)
(* Encoding.  Every scalar of the catalog is a natural number: strings of  *)
(* the source (names, checksums, resolutions, zones ...) are numbered, a   *)
(* nullable foreign key is 0 when NULL, a nullable number is NoneInt.      *)
(* A digest is a sequence of naturals; '' is the empty sequence.           *)
(* Time is a counter of clock ticks; a day has DayLen ticks.               *)
(***************************************************************************)
EXTENDS Integers, Sequences, FiniteSets, TLC

\* ---------------------------------------------------------------- bounds
MaxNow == 2              \* clock values 0..MaxNow
MaxSyncRequests == 2     \* rows of the SyncRequest table kept by the model
MaxEdits == 1            \* operator edits of the catalog
DayLen == 4              \* clock ticks per day
MaxFailures == 6        \* increment_sync_failures is called at most up to this count
MaxPolls == 4            \* polls of the device simulator

\* ------------------------------------------------------- program constants
FailThreshold == 5       \* players/models.py:284
DeviceIdLen == 16        \* players/views.py:358
DefaultSyncInterval == 300
MinTrustedSize == 1024   \* simulator_assets.py:242

NoneInt == -1            \* Python None for a nullable number
EmptyHash == << >>       \* the empty string as a digest

Devices == {"A1", "B2"}  \* well-formed 16-character identifiers
ShortId == "A"           \* an identifier of the wrong length
DeviceCode(d) == IF d = "A1" THEN 1 ELSE IF d = "B2" THEN 2 ELSE 9
DeviceIdLength(d) == IF d \in Devices THEN DeviceIdLen ELSE IF d = "" THEN 0 ELSE 1

PlaylistIds == {1, 2}
AssetIds == {1, 2}
ItemIds == {1, 2, 3}
ScheduleIds == {1}
MessageIds == {1, 2}
CommandIds == {1}
GroupId == 1

VARIABLES
    now,            \* timezone.now()
    group,          \* the Group row
    playlists,      \* Playlist rows, by id
    items,          \* PlaylistItem rows, by id
    assets,         \* Asset rows, by id
    schedules,      \* PlaylistSchedule rows, by id
    emergencyMessages, \* EmergencyMessage rows, by id
    systemCommands, \* SystemCommand rows, by id
    players,        \* Player rows, by device_id (NoPlayer when absent)
    syncRequests,   \* SyncRequest rows, in creation order
    echo,           \* per device: what the last needs_sync=true response carried
    lastOp,         \* the operation handled last
    lastResp,       \* its response
    nEdits,         \* number of operator edits
    inflight,       \* concurrent handlers: the per-request context
    db0,            \* concurrent handlers: the tables when the requests arrived
    localFiles,     \* device A1: the files of its asset directory, by asset id
    client          \* device A1: SyncManager.last_sync_hash and its poll history

vars == << now, group, playlists, items, assets, schedules, emergencyMessages,
           systemCommands, players, syncRequests, echo, lastOp,
           lastResp, nEdits, inflight, db0, localFiles, client >>

clientVars == << localFiles, client >>

catalogVars == << group, playlists, items, assets, schedules >>

BoolCode(b) == IF b THEN 1 ELSE 0

\* ------------------------------------------------------------------ rows
NoPlayer == [ exists |-> FALSE, name |-> "", status |-> "offline", last_sync |-> NoneInt,
              last_sync_hash |-> EmptyHash, sync_fail_count |-> 0,
              battery_level |-> NoneInt, connection_type |-> "unknown",
              custom_resolution |-> 0, custom_orientation |-> 0 ]

\* Player.objects.create(...) of api_register_player: model defaults
NewPlayer == [ NoPlayer EXCEPT !.exists = TRUE ]

\* ---------------------------------------------------------- time of day
TimeOf(t) == t % DayLen
DateOf(t) == t \div DayLen
IsoWeekday(t) == (DateOf(t) % 7) + 1

\* ------------------------------------------------------ schedule resolver
\* mutant: a window that crosses midnight is tested like one that does not
is_active_now_same_day(s, t) ==
    IF ~s.is_active THEN FALSE
    ELSE IF s.start_time = NoneInt \/ s.end_time = NoneInt THEN FALSE
    ELSE IF s.start_date # NoneInt /\ DateOf(t) < s.start_date THEN FALSE
    ELSE IF s.end_date # NoneInt /\ DateOf(t) > s.end_date THEN FALSE
    ELSE IF s.days_of_week # {} /\ IsoWeekday(t) \notin s.days_of_week THEN FALSE
    ELSE s.start_time <= TimeOf(t) /\ TimeOf(t) <= s.end_time

\* PlaylistSchedule.is_active_now; start_time/end_time NoneInt when missing,
\* start_date/end_date NoneInt when NULL, days_of_week a set
is_active_now(s, t) ==
    IF ~s.is_active THEN FALSE
    ELSE IF s.start_time = NoneInt \/ s.end_time = NoneInt THEN FALSE
    ELSE IF s.start_date # NoneInt /\ DateOf(t) < s.start_date THEN FALSE
    ELSE IF s.end_date # NoneInt /\ DateOf(t) > s.end_date THEN FALSE
    ELSE IF s.days_of_week # {} /\ IsoWeekday(t) \notin s.days_of_week THEN FALSE
    ELSE IF s.start_time <= s.end_time
         THEN s.start_time <= TimeOf(t) /\ TimeOf(t) <= s.end_time
         ELSE TimeOf(t) >= s.start_time \/ TimeOf(t) <= s.end_time

\* mutant: the explicit order_by is dropped and the Meta ordering
\* ['-priority', 'start_time'] decides, ties in primary-key order
ScheduleBeforeMetaOrdering(sch, a, b) ==
    \/ sch[a].priority > sch[b].priority
    \/ sch[a].priority = sch[b].priority /\ sch[a].start_time < sch[b].start_time
    \/ sch[a].priority = sch[b].priority /\ sch[a].start_time = sch[b].start_time /\ a < b

\* order_by('-priority', '-id'): does schedule a come before schedule b
ScheduleBefore(sch, a, b) ==
    \/ sch[a].priority > sch[b].priority
    \/ sch[a].priority = sch[b].priority /\ a > b

\* mutant: no fallback to the group's default playlist
get_active_playlist_for_group_no_fallback(grp, sch, t) ==
    LET cand == { s \in DOMAIN sch : sch[s].group = GroupId /\ sch[s].is_active
                                     /\ is_active_now(sch[s], t) }
    IN  IF cand = {} THEN 0
        ELSE LET first == CHOOSE s \in cand :
                              \A o \in cand \ {s} : ScheduleBefore(sch, s, o)
             IN  sch[first].playlist

\* PlaylistSchedule.get_active_playlist_for_group: the first schedule, in
\* that order, that is active now; else the group's default playlist
get_active_playlist_for_group(grp, sch, t) ==
    LET cand == { s \in DOMAIN sch : sch[s].group = GroupId /\ sch[s].is_active
                                     /\ is_active_now(sch[s], t) }
    IN  IF cand = {} THEN grp.default_playlist
        ELSE LET first == CHOOSE s \in cand :
                              \A o \in cand \ {s} : ScheduleBefore(sch, s, o)
             IN  sch[first].playlist

\* ------------------------------------------------------ the device's side
\* a file of the asset directory: size in bytes, SHA-256 of its content
NoFile == [ exists |-> FALSE, size |-> 0, sha256 |-> 0 ]
NoFiles == [ a \in AssetIds |-> NoFile ]

\* SyncManager.__init__: last_sync_hash = ""; polls counts the polls since
\* the last operator edit, edited says whether that edit changed the digest
NewClient == [ last_sync_hash |-> EmptyHash, polls |-> 0, edited |-> FALSE ]

\* ------------------------------------------------------- playlist items
\* Asset.is_video
is_video(a) == a.asset_type = "video"

\* mutant: every video takes its asset's duration, even when that is None
effective_duration_of_asset(it, ast) ==
    IF is_video(ast[it.asset]) THEN ast[it.asset].duration ELSE it.duration

\* PlaylistItem.effective_duration (asset.duration 0 when None)
effective_duration(it, ast) ==
    IF is_video(ast[it.asset]) /\ ast[it.asset].duration # 0
    THEN ast[it.asset].duration
    ELSE it.duration

ItemsOf(itm, p) == { i \in DOMAIN itm : itm[i].playlist = p }

\* order_by('zone', 'order'); rows that tie come back in primary-key order
ZoneOrderBefore(itm, a, b) ==
    \/ itm[a].zone < itm[b].zone
    \/ itm[a].zone = itm[b].zone /\ itm[a].order < itm[b].order
    \/ itm[a].zone = itm[b].zone /\ itm[a].order = itm[b].order /\ a < b

\* order_by('order')
OrderBefore(itm, a, b) ==
    \/ itm[a].order < itm[b].order
    \/ itm[a].order = itm[b].order /\ a < b

RECURSIVE SortZoneOrder(_, _)
SortZoneOrder(S, itm) ==
    IF S = {} THEN << >>
    ELSE LET m == CHOOSE x \in S : \A y \in S \ {x} : ZoneOrderBefore(itm, x, y)
         IN  << m >> \o SortZoneOrder(S \ {m}, itm)

RECURSIVE SortOrder(_, _)
SortOrder(S, itm) ==
    IF S = {} THEN << >>
    ELSE LET m == CHOOSE x \in S : \A y \in S \ {x} : OrderBefore(itm, x, y)
         IN  << m >> \o SortOrder(S \ {m}, itm)

\* ----------------------------------------------------- sync hash engine
\* Player.effective_resolution / effective_orientation
effective_resolution(player, grp) ==
    IF player.custom_resolution # 0 THEN player.custom_resolution ELSE grp.resolution
effective_orientation(player, grp) ==
    IF player.custom_orientation # 0 THEN player.custom_orientation ELSE grp.orientation

\* the dict calculate_player_sync_hash builds before hashing it
HashSyncData(device_id, player, grp, pls, itm, ast, sch, t) ==
    LET resolved == get_active_playlist_for_group(grp, sch, t)
        active_playlist == IF resolved = 0 THEN grp.default_playlist ELSE resolved
    IN  [ player_id |-> DeviceCode(device_id),
          group_config |-> [ sync_interval |-> grp.sync_interval,
                             resolution |-> effective_resolution(player, grp),
                             orientation |-> effective_orientation(player, grp),
                             audio_enabled |-> grp.audio_enabled,
                             tv_control |-> grp.tv_control ],
          playlist |-> IF active_playlist = 0 THEN << >>
                       ELSE << [ id |-> active_playlist,
                                 name |-> pls[active_playlist].name,
                                 layout |-> pls[active_playlist].layout,
                                 updated_at |-> pls[active_playlist].updated_at,
                                 ticker_enabled |-> pls[active_playlist].ticker_enabled,
                                 ticker_text |-> pls[active_playlist].ticker_text ] >>,
          assets |-> IF active_playlist = 0 THEN << >>
                     ELSE LET ord == SortZoneOrder(ItemsOf(itm, active_playlist), itm)
                          IN  [ k \in 1..Len(ord) |->
                                  [ id |-> itm[ord[k]].asset,
                                    name |-> ast[itm[ord[k]].asset].name,
                                    checksum |-> ast[itm[ord[k]].asset].checksum,
                                    updated_at |-> ast[itm[ord[k]].asset].updated_at,
                                    duration |-> effective_duration(itm[ord[k]], ast),
                                    zone |-> itm[ord[k]].zone,
                                    order |-> itm[ord[k]].order ] ] ]

RECURSIVE DumpAssets(_)
DumpAssets(s) ==
    IF s = << >> THEN << >>
    ELSE << s[1].checksum, s[1].duration, s[1].id, s[1].name, s[1].order,
            s[1].updated_at, s[1].zone >> \o DumpAssets(Tail(s))

\* json.dumps(sync_data, sort_keys=True): keys in sorted order, lists with
\* their length, so that different dicts give different strings
JsonDumps(sd) ==
    << Len(sd.assets) >> \o DumpAssets(sd.assets)
    \o << BoolCode(sd.group_config.audio_enabled), sd.group_config.orientation,
          sd.group_config.resolution, sd.group_config.sync_interval,
          BoolCode(sd.group_config.tv_control) >>
    \o << sd.player_id >>
    \o ( IF sd.playlist = << >> THEN << 0 >>
         ELSE << 1, sd.playlist[1].id, sd.playlist[1].layout, sd.playlist[1].name,
                 BoolCode(sd.playlist[1].ticker_enabled), sd.playlist[1].ticker_text,
                 sd.playlist[1].updated_at >> )

\* hashlib.sha256(...).hexdigest()[:8]: a fixed-length, never empty string;
\* SHA-256 is taken to be collision free on the strings of the model
Sha256Hex8(json_string) == << Len(json_string) >> \o json_string

\* mutant: the time of the call is hashed with the structure
calculate_player_sync_hash_timestamped(device_id, player, grp, pls, itm, ast, sch, t) ==
    Sha256Hex8(JsonDumps(HashSyncData(device_id, player, grp, pls, itm, ast, sch, t))
               \o << t >>)

calculate_player_sync_hash(device_id, player, grp, pls, itm, ast, sch, t) ==
    Sha256Hex8(JsonDumps(HashSyncData(device_id, player, grp, pls, itm, ast, sch, t)))

\* ------------------------------------------------------------ sync payload
\* PlaylistItem.to_sync_data
ItemToSyncData(i, itm, ast) ==
    [ id |-> i, asset_id |-> itm[i].asset,
      duration |-> effective_duration(itm[i], ast),
      zone |-> itm[i].zone, order |-> itm[i].order,
      transition |-> itm[i].transition_effect, fullscreen |-> itm[i].fullscreen,
      asset_ticker |-> itm[i].asset_ticker,
      valid_from |-> itm[i].valid_from, valid_until |-> itm[i].valid_until ]

\* Playlist.to_sync_data
PlaylistToSyncData(p, pls, itm, ast) ==
    LET ord == SortOrder(ItemsOf(itm, p), itm)
    IN  [ id |-> p, name |-> pls[p].name, layout |-> pls[p].layout, active |-> TRUE,
          ticker |-> [ enabled |-> pls[p].ticker_enabled, text |-> pls[p].ticker_text,
                       speed |-> pls[p].ticker_speed, position |-> pls[p].ticker_position ],
          shuffle |-> pls[p].shuffle_enabled, repeat |-> pls[p].repeat_enabled,
          items |-> [ k \in 1..Len(ord) |-> ItemToSyncData(ord[k], itm, ast) ] ]

\* the schedules of the playlist for the group that are active now (the
\* loop of generate_sync_data keeps the first one, in Meta ordering)
CurrentSchedules(p, sch, t) ==
    { s \in DOMAIN sch : sch[s].playlist = p /\ sch[s].group = GroupId
                         /\ sch[s].is_active /\ is_active_now(sch[s], t) }

\* asset_data of generate_sync_data
AssetData(a, ast) ==
    [ id |-> a, name |-> ast[a].name, type |-> ast[a].asset_type,
      checksum |-> ast[a].checksum, size_bytes |-> ast[a].file_size,
      duration |-> ast[a].duration ]

\* asset_data['metadata'].update(asset.metadata) raises when the JSON value
\* stored in Asset.metadata is a non-empty list instead of an object
PayloadRaises(grp, itm, ast, sch, t) ==
    LET resolved == get_active_playlist_for_group(grp, sch, t)
        active_playlist == IF resolved = 0 THEN grp.default_playlist ELSE resolved
    IN  /\ active_playlist # 0
        /\ \E i \in ItemsOf(itm, active_playlist) : ast[itm[i].asset].metadata = "list"

\* mutant: only the asset of the playlist's first item is listed
generate_sync_data_first_asset(player, grp, pls, itm, ast, sch, t) ==
    LET resolved == get_active_playlist_for_group(grp, sch, t)
        active_playlist == IF resolved = 0 THEN grp.default_playlist ELSE resolved
        ord == SortZoneOrder(ItemsOf(itm, active_playlist), itm)
        cur == CurrentSchedules(active_playlist, sch, t)
    IN  [ sync_timestamp |-> t,
          config_updates |-> [ sync_interval |-> grp.sync_interval,
                               resolution |-> effective_resolution(player, grp),
                               orientation |-> effective_orientation(player, grp),
                               audio_enabled |-> grp.audio_enabled,
                               tv_control |-> grp.tv_control,
                               screenshot_interval |-> grp.screenshot_interval ],
          playlists |-> IF active_playlist = 0 THEN << >>
                        ELSE << [ data |-> PlaylistToSyncData(active_playlist, pls, itm, ast),
                                  has_schedule |-> cur # {} ] >>,
          assets |-> IF active_playlist = 0 \/ ord = << >> THEN << >>
                     ELSE << AssetData(itm[ord[1]].asset, ast) >>,
          deleted_assets |-> << >> ]

\* generate_sync_data: config, the resolved playlist, one asset entry per item
generate_sync_data(player, grp, pls, itm, ast, sch, t) ==
    LET resolved == get_active_playlist_for_group(grp, sch, t)
        active_playlist == IF resolved = 0 THEN grp.default_playlist ELSE resolved
        ord == SortZoneOrder(ItemsOf(itm, active_playlist), itm)
        cur == CurrentSchedules(active_playlist, sch, t)
    IN  [ sync_timestamp |-> t,
          config_updates |-> [ sync_interval |-> grp.sync_interval,
                               resolution |-> effective_resolution(player, grp),
                               orientation |-> effective_orientation(player, grp),
                               audio_enabled |-> grp.audio_enabled,
                               tv_control |-> grp.tv_control,
                               screenshot_interval |-> grp.screenshot_interval ],
          playlists |-> IF active_playlist = 0 THEN << >>
                        ELSE << [ data |-> PlaylistToSyncData(active_playlist, pls, itm, ast),
                                  has_schedule |-> cur # {} ] >>,
          assets |-> IF active_playlist = 0 THEN << >>
                     ELSE [ k \in 1..Len(ord) |-> AssetData(itm[ord[k]].asset, ast) ],
          deleted_assets |-> << >> ]

\* ------------------------------------------- emergency messages, commands
RECURSIVE SetToSeq(_)
SetToSeq(S) ==
    IF S = {} THEN << >>
    ELSE LET m == CHOOSE x \in S : \A y \in S : x <= y
         IN  << m >> \o SetToSeq(S \ {m})

\* the rows the two many-to-many joins of the query give for one message
\* that match the device (an empty relation joins as one NULL row)
JoinRows(device_id, msg) ==
    { row \in (IF msg.groups = {} THEN {0} ELSE msg.groups)
              \X (IF msg.players = {} THEN {""} ELSE msg.players) :
        row[1] = GroupId \/ row[2] = device_id }

RECURSIVE Repeat(_, _)
Repeat(x, n) == IF n = 0 THEN << >> ELSE << x >> \o Repeat(x, n - 1)

RECURSIVE RowsOf(_, _, _)
RowsOf(S, device_id, msgs) ==
    IF S = {} THEN << >>
    ELSE LET m == CHOOSE x \in S : \A y \in S : x <= y
         IN  Repeat(m, Cardinality(JoinRows(device_id, msgs[m])))
             \o RowsOf(S \ {m}, device_id, msgs)

\* mutant: the query without distinct(), one entry per joined row
get_active_emergency_messages_no_distinct(device_id, msgs, t) ==
    RowsOf({ m \in DOMAIN msgs :
               /\ msgs[m].is_active
               /\ msgs[m].start_time <= t
               /\ (msgs[m].end_time = NoneInt \/ msgs[m].end_time > t) },
           device_id, msgs)

\* get_active_emergency_messages: the filter chain, then distinct()
get_active_emergency_messages(device_id, msgs, t) ==
    SetToSeq({ m \in DOMAIN msgs :
                 /\ msgs[m].is_active
                 /\ msgs[m].start_time <= t
                 /\ (msgs[m].end_time = NoneInt \/ msgs[m].end_time > t)
                 /\ (GroupId \in msgs[m].groups \/ device_id \in msgs[m].players) })

\* mutant: a command scheduled for this very instant is not yet due
get_pending_system_commands_strict(device_id, cmds, t) ==
    SetToSeq({ c \in DOMAIN cmds :
                 /\ cmds[c].status = "pending"
                 /\ cmds[c].scheduled_at < t
                 /\ device_id \in cmds[c].players })

\* get_pending_system_commands
get_pending_system_commands(device_id, cmds, t) ==
    SetToSeq({ c \in DOMAIN cmds :
                 /\ cmds[c].status = "pending"
                 /\ cmds[c].scheduled_at <= t
                 /\ device_id \in cmds[c].players })

\* ------------------------------------------------- requests and responses
\* An optional value is a sequence of length 0 (absent) or 1 (present).
NoResponse ==
    [ status |-> "none", http |-> 0, message |-> "", needs_sync |-> FALSE,
      sync_data |-> << >>, new_sync_hash |-> << >>, next_check_interval |-> NoneInt,
      emergency_messages |-> << >>, system_commands |-> << >> ]

ErrorResponse(code, msg) ==
    [ NoResponse EXCEPT !.status = "error", !.http = code, !.message = msg ]

NotRegisteredResponse ==
    [ NoResponse EXCEPT !.status = "device_not_registered", !.http = 404,
                        !.message = "Device not found in system" ]

NoSyncRequest ==
    [ player |-> "", request_timestamp |-> NoneInt, client_sync_hash |-> EmptyHash,
      needs_sync |-> FALSE, server_sync_hash |-> EmptyHash,
      response_timestamp |-> NoneInt, battery_level |-> NoneInt,
      connection_type |-> "" ]

\* data.get(key, default) on an optional field
Get(opt, default) == IF opt = << >> THEN default ELSE opt[1]

\* ------------------------------------------------------ the request context
\* db is the pair of tables a handler writes; c is the handler's frame:
\* its position pc, the request body and its local variables.
Db(pl, sr) == [ players |-> pl, syncRequests |-> sr ]

NewContext(kind, body) ==
    [ kind |-> kind, body |-> body, pc |-> "get", device_id |-> "",
      player |-> NoPlayer, sr |-> 0, sync_request |-> NoSyncRequest,
      server_hash |-> EmptyHash, client_hash |-> EmptyHash, needs_sync |-> FALSE,
      sync_interval |-> NoneInt, response |-> NoResponse ]

Return(db, c, resp) == [ db |-> db, c |-> [ c EXCEPT !.pc = "done", !.response = resp ] ]
Goto(db, c, pc) == [ db |-> db, c |-> [ c EXCEPT !.pc = pc ] ]

Registered(db, device_id) == device_id \in Devices /\ db.players[device_id].exists

\* ------------------------------------------------------ device_check_server
\* mutant: the device_id check of line 27 is missing
CheckGetNoIdCheck(db, c) ==
    IF c.body.parse = "invalid_json" THEN Return(db, c, ErrorResponse(400, "Invalid JSON"))
    ELSE IF c.body.parse = "not_object" THEN Return(db, c, ErrorResponse(500, "Server error"))
    ELSE IF ~Registered(db, Get(c.body.device_id, "")) THEN Return(db, c, NotRegisteredResponse)
    ELSE Goto(db, [ c EXCEPT !.device_id = c.body.device_id[1],
                             !.player = db.players[c.body.device_id[1]] ], "create")

\* mutant: an unknown device is answered with the generic error, after a
\* SyncRequest without player was recorded
CheckGetGenericError(db, c) ==
    IF c.body.parse = "invalid_json" THEN Return(db, c, ErrorResponse(400, "Invalid JSON"))
    ELSE IF c.body.parse = "not_object" THEN Return(db, c, ErrorResponse(500, "Server error"))
    ELSE IF Get(c.body.device_id, "") = ""
         THEN Return(db, c, ErrorResponse(400, "device_id is required"))
    ELSE IF ~Registered(db, c.body.device_id[1])
         THEN Return([ db EXCEPT !.syncRequests = Append(db.syncRequests, NoSyncRequest) ],
                     c, ErrorResponse(404, "Device not found in system"))
    ELSE Goto(db, [ c EXCEPT !.device_id = c.body.device_id[1],
                             !.player = db.players[c.body.device_id[1]] ], "create")

\* lines 24-41: parse, device_id check, Player.objects.get
CheckGet(db, c) ==
    IF c.body.parse = "invalid_json" THEN Return(db, c, ErrorResponse(400, "Invalid JSON"))
    ELSE IF c.body.parse = "not_object" THEN Return(db, c, ErrorResponse(500, "Server error"))
    ELSE IF Get(c.body.device_id, "") = ""
         THEN Return(db, c, ErrorResponse(400, "device_id is required"))
    ELSE IF ~Registered(db, c.body.device_id[1]) THEN Return(db, c, NotRegisteredResponse)
    ELSE Goto(db, [ c EXCEPT !.device_id = c.body.device_id[1],
                             !.player = db.players[c.body.device_id[1]] ], "create")

\* mutant: the row is created without the digest the device presented
CheckCreateNoClientHash(db, c) ==
    LET row == [ NoSyncRequest EXCEPT
                   !.player = c.device_id,
                   !.request_timestamp = now,
                   !.battery_level = c.body.battery_level,
                   !.connection_type = Get(c.body.connection_type, "") ]
    IN  Goto([ db EXCEPT !.syncRequests = Append(db.syncRequests, row) ],
             [ c EXCEPT !.sr = Len(db.syncRequests) + 1, !.sync_request = row ],
             "save_health")

\* lines 44-52: SyncRequest.objects.create
CheckCreate(db, c) ==
    LET row == [ NoSyncRequest EXCEPT
                   !.player = c.device_id,
                   !.request_timestamp = now,
                   !.client_sync_hash = Get(c.body.last_sync_hash, EmptyHash),
                   !.battery_level = c.body.battery_level,
                   !.connection_type = Get(c.body.connection_type, "") ]
    IN  Goto([ db EXCEPT !.syncRequests = Append(db.syncRequests, row) ],
             [ c EXCEPT !.sr = Len(db.syncRequests) + 1, !.sync_request = row ],
             "save_health")

\* mutant: the first save also stamps last_sync
CheckSaveHealthStampsLastSync(db, c) ==
    IF c.body.device_health = "null"
    THEN Return(db, c, ErrorResponse(500, "Server error"))
    ELSE LET player == [ c.player EXCEPT
                           !.battery_level = c.body.battery_level,
                           !.connection_type = Get(c.body.connection_type, "unknown"),
                           !.status = "online", !.last_sync = now ]
         IN  Goto([ db EXCEPT !.players[c.device_id] = player ],
                  [ c EXCEPT !.player = player ], "hash")

\* lines 55-63: health and status from the request, player.save()
CheckSaveHealth(db, c) ==
    IF c.body.device_health = "null"
    THEN Return(db, c, ErrorResponse(500, "Server error"))
    ELSE LET player == [ c.player EXCEPT
                           !.battery_level = c.body.battery_level,
                           !.connection_type = Get(c.body.connection_type, "unknown"),
                           !.status = "online" ]
         IN  Goto([ db EXCEPT !.players[c.device_id] = player ],
                  [ c EXCEPT !.player = player ], "hash")

\* mutant: a device that presents no digest is not synchronised
NeedsSyncUnlessEmpty(client_hash, server_hash) ==
    client_hash # EmptyHash /\ client_hash # server_hash

\* line 70
NeedsSync(client_hash, server_hash) == client_hash # server_hash

\* mutant: the lists are attached only to a response that triggers a sync
AttachListsOnSync(resp, device_id, needs_sync) ==
    IF needs_sync
    THEN [ resp EXCEPT
             !.emergency_messages = get_active_emergency_messages(device_id, emergencyMessages, now),
             !.system_commands = get_pending_system_commands(device_id, systemCommands, now) ]
    ELSE resp

\* lines 79-87: both lists are attached whenever they are not empty
AttachLists(resp, device_id, needs_sync) ==
    [ resp EXCEPT
        !.emergency_messages = get_active_emergency_messages(device_id, emergencyMessages, now),
        !.system_commands = get_pending_system_commands(device_id, systemCommands, now) ]

\* mutant: a device that reached the failure threshold is turned away
CheckHashBlocked(db, c) ==
    IF c.player.sync_fail_count >= FailThreshold
    THEN Return(db, c, ErrorResponse(503, "Too many sync failures"))
    ELSE LET server_hash == calculate_player_sync_hash(c.device_id, c.player, group,
                                playlists, items, assets, schedules, now)
             client_hash == Get(c.body.last_sync_hash, EmptyHash)
             needs_sync == NeedsSync(client_hash, server_hash)
             response == [ NoResponse EXCEPT !.status = "success", !.http = 200,
                                             !.needs_sync = needs_sync ]
         IN  Goto(db, [ c EXCEPT !.server_hash = server_hash, !.client_hash = client_hash,
                                 !.needs_sync = needs_sync,
                                 !.sync_interval = group.sync_interval,
                                 !.response = AttachLists(response, c.device_id, needs_sync) ],
                  IF needs_sync THEN "payload" ELSE "finish")

\* lines 66-87: server digest, needs_sync, emergency messages, commands
CheckHash(db, c) ==
    LET server_hash == calculate_player_sync_hash(c.device_id, c.player, group,
                           playlists, items, assets, schedules, now)
        client_hash == Get(c.body.last_sync_hash, EmptyHash)
        needs_sync == NeedsSync(client_hash, server_hash)
        response == [ NoResponse EXCEPT !.status = "success", !.http = 200,
                                        !.needs_sync = needs_sync ]
    IN  Goto(db, [ c EXCEPT !.server_hash = server_hash, !.client_hash = client_hash,
                            !.needs_sync = needs_sync,
                            !.sync_interval = group.sync_interval,
                            !.response = AttachLists(response, c.device_id, needs_sync) ],
             IF needs_sync THEN "payload" ELSE "finish")

\* lines 91-93: generate_sync_data, new_sync_hash
CheckPayload(db, c) ==
    IF PayloadRaises(group, items, assets, schedules, now)
    THEN Return(db, c, ErrorResponse(500, "Server error"))
    ELSE Goto(db, [ c EXCEPT
                      !.response.sync_data =
                          << generate_sync_data(c.player, group, playlists, items,
                                                assets, schedules, now) >>,
                      !.response.new_sync_hash = << c.server_hash >> ], "reset")

\* mutant: the counter is not reset
reset_sync_failures_noop(db, device_id, player) ==
    [ db |-> db, player |-> player ]

\* Player.reset_sync_failures: the counter, saved with update_fields
reset_sync_failures(db, device_id, player) ==
    [ db |-> [ db EXCEPT !.players[device_id].sync_fail_count = 0 ],
      player |-> [ player EXCEPT !.sync_fail_count = 0 ] ]

\* mutant: the status changes only once the threshold is exceeded
increment_sync_failures_above(db, device_id, player) ==
    LET count == player.sync_fail_count + 1
        status == IF count > FailThreshold THEN "error" ELSE player.status
    IN  [ db |-> [ db EXCEPT !.players[device_id].sync_fail_count = count,
                             !.players[device_id].status = status ],
          player |-> [ player EXCEPT !.sync_fail_count = count, !.status = status ] ]

\* Player.increment_sync_failures: counter and status, saved with update_fields
increment_sync_failures(db, device_id, player) ==
    LET count == player.sync_fail_count + 1
        status == IF count >= FailThreshold THEN "error" ELSE player.status
    IN  [ db |-> [ db EXCEPT !.players[device_id].sync_fail_count = count,
                             !.players[device_id].status = status ],
          player |-> [ player EXCEPT !.sync_fail_count = count, !.status = status ] ]

\* lines 96-98: new digest and last_sync on the object, reset_sync_failures()
CheckReset(db, c) ==
    LET r == reset_sync_failures(db, c.device_id,
                 [ c.player EXCEPT !.last_sync_hash = c.server_hash, !.last_sync = now ])
    IN  Goto(r.db, [ c EXCEPT !.player = r.player ], "save_hash")

\* line 99: player.save() writes every column of the object
CheckSaveHash(db, c) ==
    Goto([ db EXCEPT !.players[c.device_id] = c.player ], c, "finish")

\* mutant: next_check_interval is the model default, not the group's value
CheckFinishDefaultInterval(db, c) ==
    LET row == [ c.sync_request EXCEPT !.needs_sync = c.needs_sync,
                                       !.server_sync_hash = c.server_hash,
                                       !.response_timestamp = now ]
        resp == IF c.needs_sync THEN c.response
                ELSE [ c.response EXCEPT !.next_check_interval = DefaultSyncInterval ]
    IN  Return([ db EXCEPT !.syncRequests[c.sr] = row ],
               [ c EXCEPT !.sync_request = row ], resp)

\* lines 102-114: next_check_interval, the SyncRequest row, the response
CheckFinish(db, c) ==
    LET row == [ c.sync_request EXCEPT !.needs_sync = c.needs_sync,
                                       !.server_sync_hash = c.server_hash,
                                       !.response_timestamp = now ]
        resp == IF c.needs_sync THEN c.response
                ELSE [ c.response EXCEPT !.next_check_interval = c.sync_interval ]
    IN  Return([ db EXCEPT !.syncRequests[c.sr] = row ],
               [ c EXCEPT !.sync_request = row ], resp)

CheckServerStep(db, c) ==
    CASE c.pc = "get" -> CheckGet(db, c)
      [] c.pc = "create" -> CheckCreate(db, c)
      [] c.pc = "save_health" -> CheckSaveHealth(db, c)
      [] c.pc = "hash" -> CheckHash(db, c)
      [] c.pc = "payload" -> CheckPayload(db, c)
      [] c.pc = "reset" -> CheckReset(db, c)
      [] c.pc = "save_hash" -> CheckSaveHash(db, c)
      [] c.pc = "finish" -> CheckFinish(db, c)

\* ------------------------------------------------- device_sync_confirmation
\* lines 304-308: parse, get_object_or_404; every exception is a 500
ConfirmGet(db, c) ==
    IF c.body.parse # "ok" THEN Return(db, c, ErrorResponse(500, "Server error"))
    ELSE IF ~Registered(db, Get(c.body.device_id, ""))
         THEN Return(db, c, ErrorResponse(500, "Server error"))
    ELSE Goto(db, [ c EXCEPT !.device_id = c.body.device_id[1],
                             !.player = db.players[c.body.device_id[1]] ], "reset")

\* lines 311-314: reported digest, last_sync, status, reset_sync_failures()
ConfirmReset(db, c) ==
    LET r == reset_sync_failures(db, c.device_id,
                 [ c.player EXCEPT !.last_sync_hash = Get(c.body.sync_hash, EmptyHash),
                                   !.last_sync = now, !.status = "online" ])
    IN  Goto(r.db, [ c EXCEPT !.player = r.player ], "save")

\* mutant: the reported digest is saved only when it is the server's own
ConfirmSaveVerified(db, c) ==
    IF c.body.sync_hash = << >>
    THEN Return(db, c, ErrorResponse(500, "Server error"))
    ELSE IF c.player.last_sync_hash
              # calculate_player_sync_hash(c.device_id, c.player, group, playlists,
                                           items, assets, schedules, now)
         THEN Return(db, c, ErrorResponse(400, "Digest mismatch"))
    ELSE Return([ db EXCEPT !.players[c.device_id] = c.player ], c,
                [ NoResponse EXCEPT !.status = "success", !.http = 200,
                                    !.message = "Sync confirmation received" ])

\* line 315: player.save(); a missing sync_hash is None and violates NOT NULL
ConfirmSave(db, c) ==
    IF c.body.sync_hash = << >>
    THEN Return(db, c, ErrorResponse(500, "Server error"))
    ELSE Return([ db EXCEPT !.players[c.device_id] = c.player ], c,
                [ NoResponse EXCEPT !.status = "success", !.http = 200,
                                    !.message = "Sync confirmation received" ])

SyncConfirmationStep(db, c) ==
    CASE c.pc = "get" -> ConfirmGet(db, c)
      [] c.pc = "reset" -> ConfirmReset(db, c)
      [] c.pc = "save" -> ConfirmSave(db, c)

\* --------------------------------------------------------- running a handler
HandlerStep(db, c) ==
    IF c.kind = "check_server" THEN CheckServerStep(db, c)
    ELSE SyncConfirmationStep(db, c)

\* the handler run from its current position to its return; each step is
\* taken once and its result r handed on
RECURSIVE Run(_, _)
Run(db, c) ==
    IF c.pc = "done" THEN [ db |-> db, c |-> c ]
    ELSE CHOOSE result \in { Run(r.db, r.c) : r \in { HandlerStep(db, c) } } : TRUE

\* -------------------------------------------------------- api_register_player
RegisterResponse(code, status, msg) ==
    [ NoResponse EXCEPT !.status = status, !.http = code, !.message = msg ]

\* mutant: the check for an existing player is missing; Player.objects.create
\* then violates the unique device_id and the handler answers 500
api_register_player_no_exists_check(db, body) ==
    IF body.parse = "invalid_json"
    THEN [ db |-> db, response |-> RegisterResponse(400, "error", "Invalid JSON") ]
    ELSE IF body.parse = "not_object" \/ body.device_id = << >>
    THEN [ db |-> db, response |-> RegisterResponse(500, "error", "Server error") ]
    ELSE IF DeviceIdLength(body.device_id[1]) # DeviceIdLen
    THEN [ db |-> db, response |-> RegisterResponse(400, "error", "device_id must be exactly 16") ]
    ELSE IF body.group_id # 0 /\ body.group_id # GroupId
    THEN [ db |-> db, response |-> RegisterResponse(400, "error", "group does not exist") ]
    ELSE IF Registered(db, body.device_id[1])
    THEN [ db |-> db, response |-> RegisterResponse(500, "error", "Server error") ]
    ELSE [ db |-> [ db EXCEPT !.players[body.device_id[1]] =
                      [ NewPlayer EXCEPT !.name = Get(body.name, "Player") ] ],
           response |-> RegisterResponse(200, "success", "Player registered successfully") ]

\* players/views.py 339-425; the f-string default of data.get('name', ...)
\* is evaluated first and raises when device_id is missing
api_register_player(db, body) ==
    IF body.parse = "invalid_json"
    THEN [ db |-> db, response |-> RegisterResponse(400, "error", "Invalid JSON") ]
    ELSE IF body.parse = "not_object" \/ body.device_id = << >>
    THEN [ db |-> db, response |-> RegisterResponse(500, "error", "Server error") ]
    ELSE IF DeviceIdLength(body.device_id[1]) # DeviceIdLen
    THEN [ db |-> db, response |-> RegisterResponse(400, "error", "device_id must be exactly 16") ]
    ELSE IF Registered(db, body.device_id[1])
    THEN [ db |-> db, response |-> RegisterResponse(400, "error", "already exists") ]
    ELSE IF body.group_id # 0 /\ body.group_id # GroupId
    THEN [ db |-> db, response |-> RegisterResponse(400, "error", "group does not exist") ]
    ELSE [ db |-> [ db EXCEPT !.players[body.device_id[1]] =
                      [ NewPlayer EXCEPT !.name = Get(body.name, "Player") ] ],
           response |-> RegisterResponse(200, "success", "Player registered successfully") ]

\* NetworkManager.register_device / test_device_registration: what the
\* client makes of the response
register_device(resp) ==
    \/ resp.http = 200
    \/ resp.http = 400 /\ resp.message = "already exists"

\* ------------------------------------------------------------ initial state
InitGroup(dp) ==
    [ sync_interval |-> 60, resolution |-> 1, orientation |-> 1,
      audio_enabled |-> TRUE, tv_control |-> FALSE, screenshot_interval |-> 3600,
      default_playlist |-> dp ]

InitPlaylists ==
    [ p \in PlaylistIds |->
        [ name |-> p, layout |-> 1, updated_at |-> 0, ticker_enabled |-> FALSE,
          ticker_text |-> 0, ticker_speed |-> 5, ticker_position |-> 1,
          shuffle_enabled |-> FALSE, repeat_enabled |-> TRUE ] ]

InitItem(p, a, z, o) ==
    [ playlist |-> p, asset |-> a, duration |-> 10, zone |-> z, order |-> o,
      fullscreen |-> FALSE, transition_effect |-> 0, asset_ticker |-> 0,
      valid_from |-> NoneInt, valid_until |-> NoneInt ]

InitItems ==
    [ i \in ItemIds |-> IF i = 1 THEN InitItem(1, 1, 1, 0)
                        ELSE IF i = 2 THEN InitItem(1, 2, 2, 0)
                        ELSE InitItem(2, 1, 1, 0) ]

InitAssets(md) ==
    [ a \in AssetIds |->
        IF a = 1
        THEN [ name |-> 1, asset_type |-> "image", checksum |-> 11, updated_at |-> 0,
               duration |-> 0, file_size |-> 100, metadata |-> "dict" ]
        ELSE [ name |-> 2, asset_type |-> "video", checksum |-> 22, updated_at |-> 0,
               duration |-> 30, file_size |-> 200, metadata |-> md ] ]

InitSchedules(act) ==
    [ s \in ScheduleIds |->
        [ playlist |-> 1, group |-> GroupId, start_time |-> 1, end_time |-> 1,
          days_of_week |-> {}, start_date |-> NoneInt, end_date |-> NoneInt,
          priority |-> 1, is_active |-> act ] ]

InitMessages ==
    [ m \in MessageIds |->
        IF m = 1
        THEN [ is_active |-> TRUE, start_time |-> 0, end_time |-> NoneInt,
               groups |-> {GroupId}, players |-> {"A1"} ]
        ELSE [ is_active |-> TRUE, start_time |-> 1, end_time |-> 3,
               groups |-> {}, players |-> {"A1"} ] ]

InitCommands ==
    [ k \in CommandIds |-> [ status |-> "pending", scheduled_at |-> 1, players |-> {"A1"} ] ]

NoRequest == [ parse |-> "none", device_id |-> << >>, name |-> << >>,
               last_sync_hash |-> << >>,
               sync_hash |-> << >>, battery_level |-> NoneInt,
               connection_type |-> << >>, device_health |-> "absent", group_id |-> 0 ]

NoEcho == [ hash |-> << >>, playlist |-> 0, valid |-> FALSE ]

\* device A1 is registered and has failed to sync twice (increment_sync_failures)
FailedTwice == [ NewPlayer EXCEPT !.name = "Player", !.sync_fail_count = 2 ]

\* default playlist, metadata of asset 2, whether the schedule is enabled
InitCases == { << 0, "dict", FALSE >>, << 2, "dict", TRUE >>, << 2, "list", TRUE >> }

Init ==
    /\ now = 0
    /\ \E k \in InitCases :
           /\ group = InitGroup(k[1])
           /\ assets = InitAssets(k[2])
           /\ schedules = InitSchedules(k[3])
    /\ playlists = InitPlaylists
    /\ items = InitItems
    /\ emergencyMessages = InitMessages
    /\ systemCommands = InitCommands
    /\ players = [ d \in Devices |-> IF d = "A1" THEN FailedTwice ELSE NoPlayer ]
    /\ syncRequests = << >>
    /\ echo = [ d \in Devices |-> NoEcho ]
    /\ lastOp = "none"
    /\ lastResp = NoResponse
    /\ nEdits = 0
    /\ inflight = << >>
    /\ db0 = Db(players, syncRequests)
    /\ localFiles = NoFiles
    /\ client = NewClient

\* ------------------------------------------------------------------ requests
BogusHash == << 0 >>     \* a digest the server never computed

\* the playlist the resolver and the fallback give the group now
ActivePlaylist ==
    LET resolved == get_active_playlist_for_group(group, schedules, now)
    IN  IF resolved = 0 THEN group.default_playlist ELSE resolved

\* the digests a client of device A1 may present
PresentedHashes ==
    {EmptyHash, players["A1"].last_sync_hash}
        \cup { echo["A1"].hash[k] : k \in 1..Len(echo["A1"].hash) }

CheckBody(dev, hash, health) ==
    [ NoRequest EXCEPT !.parse = "ok", !.device_id = dev, !.last_sync_hash = hash,
                       !.battery_level = 80, !.connection_type = << "wifi" >>,
                       !.device_health = health ]

\* B2 is not registered when these requests are sent
CheckBodies ==
    { [ NoRequest EXCEPT !.parse = k ] : k \in {"invalid_json", "not_object"} }
    \cup { CheckBody(dev, << >>, "object") : dev \in { << >>, << "" >>, << "B2" >> } }
    \cup { CheckBody(<< "A1" >>, << >>, "object"), CheckBody(<< "A1" >>, << EmptyHash >>, "null") }
    \cup { CheckBody(<< "A1" >>, << h >>, "object") : h \in PresentedHashes }

ConfirmBodies ==
    { [ NoRequest EXCEPT !.parse = "invalid_json" ],
      [ NoRequest EXCEPT !.parse = "ok", !.device_id = << "B2" >>, !.sync_hash = << BogusHash >> ] }
    \cup { [ NoRequest EXCEPT !.parse = "ok", !.device_id = << "A1" >>, !.sync_hash = h ] :
             h \in { << >>, << BogusHash >>, echo["A1"].hash } }

RegisterBodies ==
    { [ NoRequest EXCEPT !.parse = k ] : k \in {"invalid_json", "not_object"} }
    \cup { [ NoRequest EXCEPT !.parse = "ok", !.device_id = dev, !.name = n,
                               !.group_id = g ] :
             dev \in { << >>, << "" >>, << ShortId >>, << "A1" >>, << "B2" >> },
             n \in { << >>, << "Lobby" >> },
             g \in {0, GroupId, 9} }

\* ------------------------------------------------------------------ actions
\* the server handles one check_server request from its arrival to its return
HandleCheckServer(body) ==
    \E r \in { Run(Db(players, syncRequests), NewContext("check_server", body)) } :
        /\ Len(syncRequests) < MaxSyncRequests
        /\ players' = r.db.players
        /\ syncRequests' = r.db.syncRequests
        /\ lastOp' = "check_server"
        /\ lastResp' = r.c.response
        /\ echo' = IF r.c.response.status = "success" /\ r.c.response.needs_sync
                   THEN [ echo EXCEPT ![r.c.device_id] =
                            [ hash |-> r.c.response.new_sync_hash,
                              playlist |-> ActivePlaylist, valid |-> TRUE ] ]
                   ELSE echo
        /\ UNCHANGED << clientVars, now, catalogVars, emergencyMessages, systemCommands,
                        nEdits, inflight, db0 >>

\* a check_server request
CheckServerRequest ==
    \E body \in CheckBodies : HandleCheckServer(body)

\* the server handles one sync_confirmation request
SyncConfirmationRequest ==
    \E body \in ConfirmBodies :
        \E r \in { Run(Db(players, syncRequests), NewContext("sync_confirmation", body)) } :
            /\ players' = r.db.players
            /\ syncRequests' = r.db.syncRequests
            /\ lastOp' = "sync_confirmation"
            /\ lastResp' = r.c.response
            /\ UNCHANGED << clientVars, now, catalogVars, emergencyMessages, systemCommands,
                            echo, nEdits, inflight, db0 >>

\* the server handles one registration request
RegisterRequest ==
    \E body \in RegisterBodies :
        LET r == api_register_player(Db(players, syncRequests), body)
        IN  /\ players' = r.db.players
            /\ syncRequests' = r.db.syncRequests
            /\ lastOp' = "register"
            /\ lastResp' = r.response
            /\ UNCHANGED << clientVars, now, catalogVars, emergencyMessages, systemCommands,
                            echo, nEdits, inflight, db0 >>

\* an operator saves a playlist in the admin (updated_at is auto_now)
EditPlaylist ==
    \E p \in PlaylistIds :
        /\ nEdits < MaxEdits
        /\ nEdits' = nEdits + 1
        /\ playlists' = [ playlists EXCEPT ![p].ticker_enabled = ~@,
                                           ![p].updated_at = now ]
        /\ echo' = [ d \in Devices |-> [ echo[d] EXCEPT !.valid = FALSE ] ]
        /\ UNCHANGED << clientVars, now, group, items, assets, schedules, emergencyMessages,
                        systemCommands, players, syncRequests, lastOp,
                        lastResp, inflight, db0 >>

\* the clock advances
Tick ==
    /\ now < MaxNow
    /\ now' = now + 1
    /\ UNCHANGED << clientVars, catalogVars, emergencyMessages, systemCommands, players,
                    syncRequests, echo, lastOp, lastResp,
                    nEdits, inflight, db0 >>

\* the sync protocol: requests handled one at a time
Next ==
    \/ CheckServerRequest
    \/ SyncConfirmationRequest
    \/ EditPlaylist
    \/ Tick

Spec == Init /\ [][Next]_vars

\* registration
NextRegister ==
    \/ RegisterRequest
    \/ Tick

SpecRegister == Init /\ [][NextRegister]_vars

\* ------------------------------------------------ two requests in flight
\* the digest the server computes for device A1 now
CurrentDigest ==
    calculate_player_sync_hash("A1", players["A1"], group, playlists, items,
                               assets, schedules, now)

\* check_server requests of A1 that differ in digest and battery level
ConcCheckBodies ==
    { [ CheckBody(<< "A1" >>, << h >>, "object") EXCEPT !.battery_level = b ] :
        h \in {EmptyHash, CurrentDigest}, b \in {50, 80} }

ConcConfirmBodies ==
    { [ NoRequest EXCEPT !.parse = "ok", !.device_id = << "A1" >>, !.sync_hash = << h >> ] :
        h \in {BogusHash, CurrentDigest} }

\* a check_server and a second request of the same device reach the server
\* before either is answered
Arrive ==
    /\ inflight = << >>
    /\ \E b1 \in ConcCheckBodies :
         \E c2 \in { NewContext("check_server", b) : b \in ConcCheckBodies }
                   \cup { NewContext("sync_confirmation", b) : b \in ConcConfirmBodies } :
            /\ Len(syncRequests) + (IF c2.kind = "check_server" THEN 2 ELSE 1)
                   <= MaxSyncRequests
            /\ inflight' = << NewContext("check_server", b1), c2 >>
    /\ db0' = Db(players, syncRequests)
    /\ UNCHANGED << clientVars, now, catalogVars, emergencyMessages, systemCommands, players,
                    syncRequests, echo, lastOp, lastResp, nEdits >>

\* one worker runs its handler up to and including its next database access
WorkerStep ==
    \E i \in DOMAIN inflight :
        /\ inflight[i].pc # "done"
        /\ LET r == HandlerStep(Db(players, syncRequests), inflight[i])
           IN  /\ players' = r.db.players
               /\ syncRequests' = r.db.syncRequests
               /\ inflight' = [ inflight EXCEPT ![i] = r.c ]
        /\ UNCHANGED << clientVars, now, catalogVars, emergencyMessages, systemCommands,
                        echo, lastOp, lastResp, nEdits, db0 >>

\* both responses were sent
Retire ==
    /\ inflight # << >>
    /\ \A i \in DOMAIN inflight : inflight[i].pc = "done"
    /\ inflight' = << >>
    /\ lastOp' = inflight[1].kind
    /\ lastResp' = inflight[1].response
    /\ UNCHANGED << clientVars, now, catalogVars, emergencyMessages, systemCommands, players,
                    syncRequests, echo, nEdits, db0 >>

\* the clock advances between pairs of requests
IdleTick ==
    /\ inflight = << >>
    /\ Tick

NextConc ==
    \/ Arrive
    \/ WorkerStep
    \/ Retire
    \/ IdleTick

SpecConc == Init /\ [][NextConc]_vars

\* ------------------------------------------------------ the schedule resolver
\* the resolver on its own: two schedules drawn from the cases the four
\* checks of is_active_now distinguish, a clock that runs over two days
ResolverScheduleIds == {1, 2}
MaxClock == 2 * DayLen - 1

ResolverPriorities == { << 5, 5 >>, << 5, 10 >>, << 10, 5 >> }
ResolverWindows == { << 1, 2 >>, << 3, 0 >>, << NoneInt, 2 >> }
ResolverDates == { << NoneInt, NoneInt >>, << 1, NoneInt >>, << NoneInt, 0 >> }

ResolverSchedule(p, g, w, days, dates, prio, act) ==
    [ playlist |-> p, group |-> g, start_time |-> w[1], end_time |-> w[2],
      days_of_week |-> days, start_date |-> dates[1], end_date |-> dates[2],
      priority |-> prio, is_active |-> act ]

InitResolver ==
    /\ now = 0
    /\ \E dp \in {0, 2} : group = InitGroup(dp)
    /\ assets = InitAssets("dict")
    /\ \E prio \in ResolverPriorities, w1 \in ResolverWindows, w2 \in { << 1, 2 >>, << 3, 0 >> },
          days \in { {}, {2} }, dates \in ResolverDates, a1, a2 \in BOOLEAN,
          g1, g2 \in {GroupId, 2} :
           schedules = [ s \in ResolverScheduleIds |->
                           IF s = 1
                           THEN ResolverSchedule(1, g1, w1, days, dates, prio[1], a1)
                           ELSE ResolverSchedule(2, g2, w2, {}, << NoneInt, NoneInt >>,
                                                 prio[2], a2) ]
    /\ playlists = InitPlaylists
    /\ items = InitItems
    /\ emergencyMessages = InitMessages
    /\ systemCommands = InitCommands
    /\ players = [ d \in Devices |-> IF d = "A1" THEN FailedTwice ELSE NoPlayer ]
    /\ syncRequests = << >>
    /\ echo = [ d \in Devices |-> NoEcho ]
    /\ lastOp = "none"
    /\ lastResp = NoResponse
    /\ nEdits = 0
    /\ inflight = << >>
    /\ db0 = Db(players, syncRequests)
    /\ localFiles = NoFiles
    /\ client = NewClient

\* PlaylistSchedule.get_active_playlist_for_group(group) is called
ResolveActivePlaylist ==
    /\ lastOp' = "resolve"
    /\ lastResp' = [ status |-> "resolved",
                     playlist |-> get_active_playlist_for_group(group, schedules, now) ]
    /\ UNCHANGED << clientVars, now, catalogVars, emergencyMessages, systemCommands, players,
                    syncRequests, echo, nEdits, inflight, db0 >>

\* an operator switches a schedule on or off in the admin
SaveSchedule ==
    \E s \in DOMAIN schedules :
        /\ nEdits < MaxEdits
        /\ nEdits' = nEdits + 1
        /\ schedules' = [ schedules EXCEPT ![s].is_active = ~@ ]
        /\ UNCHANGED << clientVars, now, group, playlists, items, assets, emergencyMessages,
                        systemCommands, players, syncRequests, echo, lastOp,
                        lastResp, inflight, db0 >>

ClockTick ==
    /\ now < MaxClock
    /\ now' = now + 1
    /\ UNCHANGED << clientVars, catalogVars, emergencyMessages, systemCommands, players,
                    syncRequests, echo, lastOp, lastResp, nEdits, inflight, db0 >>

NextResolver ==
    \/ ResolveActivePlaylist
    \/ SaveSchedule
    \/ ClockTick

SpecResolver == InitResolver /\ [][NextResolver]_vars

\* ============================================== digest and catalog edits
\* values an operator gives the fields the digest reads
ItemOrders == 0..2
ItemZones == 1..2
ItemDurations == {10, 20}
Checksums == {11, 22, 33}

\* default playlist, intrinsic duration of the video (0: None), schedule on
InitDigest ==
    /\ now = 0
    /\ \E dp \in {1, 2}, vd \in {0, 30}, act \in BOOLEAN :
           /\ group = InitGroup(dp)
           /\ assets = [ InitAssets("dict") EXCEPT ![2].duration = vd ]
           /\ schedules = InitSchedules(act)
    /\ playlists = InitPlaylists
    /\ items = InitItems
    /\ emergencyMessages = InitMessages
    /\ systemCommands = InitCommands
    /\ players = [ d \in Devices |-> IF d = "A1" THEN FailedTwice ELSE NoPlayer ]
    /\ syncRequests = << >>
    /\ echo = [ d \in Devices |-> NoEcho ]
    /\ lastOp = "none"
    /\ lastResp = NoResponse
    /\ nEdits = 0
    /\ inflight = << >>
    /\ db0 = Db(players, syncRequests)
    /\ localFiles = NoFiles
    /\ client = NewClient

\* calculate_player_sync_hash(player) is called for device A1
ComputeDigest ==
    /\ lastOp' = "digest"
    /\ lastResp' = [ status |-> "digest", at |-> now, item |-> 0,
                     digest |-> calculate_player_sync_hash("A1", players["A1"], group,
                                    playlists, items, assets, schedules, now) ]
    /\ UNCHANGED << clientVars, now, catalogVars, emergencyMessages, systemCommands, players,
                    syncRequests, echo, nEdits, inflight, db0 >>

\* unique_together = ['playlist', 'asset', 'zone', 'order']
UniqueTogether(itm) ==
    \A i, j \in DOMAIN itm :
        ( /\ itm[i].playlist = itm[j].playlist /\ itm[i].asset = itm[j].asset
          /\ itm[i].zone = itm[j].zone /\ itm[i].order = itm[j].order ) => i = j

\* an operator changes one field of a playlist item and saves it; the
\* digest before the change is kept for comparison
SaveItem ==
    \E i \in ItemIds :
      \E edited \in { [ items EXCEPT ![i].order = o ] : o \in ItemOrders \ {items[i].order} }
               \cup { [ items EXCEPT ![i].zone = z ] : z \in ItemZones \ {items[i].zone} }
               \cup { [ items EXCEPT ![i].duration = d ] :
                          d \in ItemDurations \ {items[i].duration} } :
        /\ nEdits < MaxEdits
        /\ UniqueTogether(edited)
        /\ nEdits' = nEdits + 1
        /\ items' = edited
        /\ lastOp' = "save_item"
        /\ lastResp' = [ status |-> "saved", at |-> now, item |-> i,
                         digest |-> calculate_player_sync_hash("A1", players["A1"], group,
                                        playlists, items, assets, schedules, now) ]
        /\ UNCHANGED << clientVars, now, group, playlists, assets, schedules, emergencyMessages,
                        systemCommands, players, syncRequests, echo, inflight, db0 >>

\* an operator replaces an asset's file: new checksum, updated_at is auto_now
SaveAsset ==
    \E a \in AssetIds : \E c \in Checksums \ {assets[a].checksum} :
        /\ nEdits < MaxEdits
        /\ nEdits' = nEdits + 1
        /\ assets' = [ assets EXCEPT ![a].checksum = c, ![a].updated_at = now ]
        /\ lastOp' = "save_asset"
        /\ lastResp' = [ status |-> "saved", at |-> now, item |-> 0,
                         digest |-> calculate_player_sync_hash("A1", players["A1"], group,
                                        playlists, items, assets, schedules, now) ]
        /\ UNCHANGED << clientVars, now, group, playlists, items, schedules, emergencyMessages,
                        systemCommands, players, syncRequests, echo, inflight, db0 >>

NextDigest ==
    \/ ComputeDigest
    \/ SaveItem
    \/ SaveAsset
    \/ ClockTick

SpecDigest == InitDigest /\ [][NextDigest]_vars

\* ====================================================== the failure counter
\* a failed sync is counted for a registered device; the row before the
\* call is kept for comparison
IncrementSyncFailures ==
    \E d \in Devices :
        /\ players[d].exists
        /\ players[d].sync_fail_count < MaxFailures
        /\ \E r \in { increment_sync_failures(Db(players, syncRequests), d, players[d]) } :
               /\ players' = r.db.players
               /\ syncRequests' = r.db.syncRequests
        /\ lastOp' = "increment_sync_failures"
        /\ lastResp' = [ status |-> "counted", device_id |-> d, player |-> players[d] ]
        /\ UNCHANGED << clientVars, now, catalogVars, emergencyMessages, systemCommands, echo,
                        nEdits, inflight, db0 >>

\* admin action "Reset sync failures" on one player
AdminResetSyncFailures ==
    \E d \in Devices :
        /\ players[d].exists
        /\ players[d].sync_fail_count > 0
        /\ \E r \in { reset_sync_failures(Db(players, syncRequests), d, players[d]) } :
               /\ players' = r.db.players
               /\ syncRequests' = r.db.syncRequests
        /\ lastOp' = "reset_sync_failures"
        /\ lastResp' = [ status |-> "reset", device_id |-> d, player |-> players[d] ]
        /\ UNCHANGED << clientVars, now, catalogVars, emergencyMessages, systemCommands, echo,
                        nEdits, inflight, db0 >>

\* admin action "Force offline" on one player
ForceOffline ==
    \E d \in Devices :
        /\ players[d].exists
        /\ players[d].status # "offline"
        /\ players' = [ players EXCEPT ![d].status = "offline" ]
        /\ lastOp' = "force_offline"
        /\ lastResp' = [ status |-> "offline", device_id |-> d, player |-> players[d] ]
        /\ UNCHANGED << clientVars, now, catalogVars, emergencyMessages, systemCommands, syncRequests,
                        echo, nEdits, inflight, db0 >>

NextFailures ==
    \/ IncrementSyncFailures
    \/ AdminResetSyncFailures
    \/ ForceOffline
    \/ CheckServerRequest
    \/ Tick

SpecFailures == Init /\ [][NextFailures]_vars

\* ======================================================= the device simulator
\* AssetManager._verify_existing_file: is the local file taken as valid,
\* and the file afterwards (an empty file is removed); expected_checksum 0
\* is the empty string
verify_existing_file(file, expected_checksum) ==
    IF ~file.exists THEN [ valid |-> FALSE, file |-> file ]
    ELSE IF file.size = 0 THEN [ valid |-> FALSE, file |-> NoFile ]
    ELSE IF expected_checksum = 0
         THEN [ valid |-> file.size > MinTrustedSize, file |-> file ]
    ELSE [ valid |-> file.sha256 = expected_checksum, file |-> file ]

\* what GET of the asset's url returns: the stored file, whose SHA-256 is
\* the asset's checksum when it has one
Served(a, reachable) ==
    IF reachable
    THEN [ status |-> 200, size |-> assets[a].file_size,
           sha256 |-> IF assets[a].checksum # 0 THEN assets[a].checksum ELSE 70 + a ]
    ELSE [ status |-> 404, size |-> 0, sha256 |-> 0 ]

\* _download_single_asset and _save_asset_file: the file is written on a 200
\* and removed again when nothing came
download_single_asset(file, served) ==
    IF served.status # 200 THEN [ ok |-> FALSE, file |-> file ]
    ELSE IF served.size = 0 THEN [ ok |-> FALSE, file |-> NoFile ]
    ELSE [ ok |-> TRUE,
           file |-> [ exists |-> TRUE, size |-> served.size, sha256 |-> served.sha256 ] ]

\* AssetManager.download_assets over the payload's asset list (every asset
\* of the model has a file or a url, so every entry carries a 'url'):
\* the files afterwards, the assets skipped and the assets requested
RECURSIVE download_assets(_, _, _)
download_assets(payload, files, reachable) ==
    IF payload = << >> THEN [ files |-> files, skipped |-> {}, fetched |-> {} ]
    ELSE LET a == payload[1].id
             v == verify_existing_file(files[a], payload[1].checksum)
             file == IF v.valid THEN v.file
                     ELSE download_single_asset(v.file, Served(a, reachable)).file
             rest == download_assets(Tail(payload), [ files EXCEPT ![a] = file ], reachable)
         IN  [ files |-> rest.files,
               skipped |-> IF v.valid THEN rest.skipped \cup {a} ELSE rest.skipped,
               fetched |-> IF v.valid THEN rest.fetched ELSE rest.fetched \cup {a} ]

\* SyncManager.check_server, from the response on: the result handed to
\* _periodic_sync and the digest the manager keeps
check_server(response, last_sync_hash) ==
    IF response.http = 200 /\ response.needs_sync /\ response.sync_data # << >>
    THEN [ needs_sync |-> TRUE, sync_data |-> response.sync_data, error |-> "",
           last_sync_hash |-> Get(response.new_sync_hash, EmptyHash) ]
    ELSE [ needs_sync |-> FALSE, sync_data |-> << >>,
           error |-> IF response.http = 200 THEN ""
                     ELSE IF response.http = 404 THEN "not_registered"
                     ELSE "server_error",
           last_sync_hash |-> last_sync_hash ]

\* asset 2 is a web asset without checksum, or a file with one
InitClient ==
    /\ now = 0
    /\ \E k \in InitCases, c2 \in {0, 22} :
           /\ group = InitGroup(k[1])
           /\ assets = [ InitAssets(k[2]) EXCEPT ![2].checksum = c2, ![2].file_size = 2048 ]
           /\ schedules = InitSchedules(k[3])
    /\ playlists = InitPlaylists
    /\ items = InitItems
    /\ emergencyMessages = InitMessages
    /\ systemCommands = InitCommands
    /\ players = [ d \in Devices |-> IF d = "A1" THEN FailedTwice ELSE NoPlayer ]
    /\ syncRequests = << >>
    /\ echo = [ d \in Devices |-> NoEcho ]
    /\ lastOp = "none"
    /\ lastResp = NoResponse
    /\ nEdits = 0
    /\ inflight = << >>
    /\ db0 = Db(players, syncRequests)
    /\ localFiles = NoFiles
    /\ client = NewClient

\* DeviceSimulator._periodic_sync of device A1: check_server with the digest
\* the manager keeps, and on needs_sync the download of the payload's assets
PeriodicSync ==
    /\ Len(syncRequests) < MaxPolls
    /\ \E reachable \in BOOLEAN :
         \E r \in { Run(Db(players, syncRequests),
                        NewContext("check_server",
                                   CheckBody(<< "A1" >>, << client.last_sync_hash >>, "object"))) } :
           \E res \in { check_server(r.c.response, client.last_sync_hash) } :
             \E d \in { download_assets(IF res.needs_sync THEN res.sync_data[1].assets
                                        ELSE << >>, localFiles, reachable) } :
                /\ players' = r.db.players
                /\ syncRequests' = r.db.syncRequests
                /\ client' = [ client EXCEPT !.last_sync_hash = res.last_sync_hash,
                                             !.polls = @ + 1 ]
                /\ localFiles' = d.files
                /\ lastOp' = "periodic_sync"
                /\ lastResp' = [ status |-> "polled", http |-> r.c.response.http,
                                 needs_sync |-> res.needs_sync,
                                 assets |-> IF res.needs_sync THEN res.sync_data[1].assets
                                            ELSE << >>,
                                 before |-> localFiles,
                                 skipped |-> d.skipped, fetched |-> d.fetched ]
    /\ UNCHANGED << now, catalogVars, emergencyMessages, systemCommands, echo,
                    nEdits, inflight, db0 >>

\* an operator saves a playlist in the admin; the device's poll count starts
\* again and it is noted whether the save changed the device's digest
OperatorEdit ==
    \E p \in PlaylistIds :
      \E saved \in { [ playlists EXCEPT ![p].ticker_enabled = ~@, ![p].updated_at = now ] } :
        /\ nEdits < MaxEdits
        /\ nEdits' = nEdits + 1
        /\ playlists' = saved
        /\ echo' = [ d \in Devices |-> [ echo[d] EXCEPT !.valid = FALSE ] ]
        /\ client' = [ client EXCEPT
                         !.polls = 0,
                         !.edited = calculate_player_sync_hash("A1", players["A1"], group,
                                        saved, items, assets, schedules, now)
                                    # calculate_player_sync_hash("A1", players["A1"], group,
                                          playlists, items, assets, schedules, now) ]
        /\ UNCHANGED << now, group, items, assets, schedules, emergencyMessages,
                        systemCommands, players, syncRequests, lastOp,
                        lastResp, inflight, db0, localFiles >>

\* a file of the asset directory is damaged: same size, other content
CorruptFile ==
    \E a \in AssetIds :
        /\ localFiles[a].exists
        /\ localFiles[a].sha256 # 99
        /\ localFiles' = [ localFiles EXCEPT ![a].sha256 = 99 ]
        /\ UNCHANGED << now, catalogVars, emergencyMessages, systemCommands, players,
                        syncRequests, echo, lastOp, lastResp, nEdits, inflight, db0,
                        client >>

\* the clock advances
ClientTick ==
    /\ now < MaxNow
    /\ now' = now + 1
    /\ UNCHANGED << catalogVars, emergencyMessages, systemCommands, players,
                    syncRequests, echo, lastOp, lastResp,
                    nEdits, inflight, db0, clientVars >>

NextClient ==
    \/ PeriodicSync
    \/ OperatorEdit
    \/ CorruptFile
    \/ ClientTick

SpecClient == InitClient /\ [][NextClient]_vars

\* ============================================================ admin actions
\* admin action "Clear sync hash (force full sync)" on one player:
\* queryset.update(last_sync_hash='')
ClearSyncHash ==
    \E d \in Devices :
        /\ players[d].exists
        /\ players' = [ players EXCEPT ![d].last_sync_hash = EmptyHash ]
        /\ lastOp' = "clear_sync_hash"
        /\ lastResp' = [ status |-> "cleared", device_id |-> d, player |-> players[d] ]
        /\ UNCHANGED << clientVars, now, catalogVars, emergencyMessages, systemCommands,
                        syncRequests, echo, nEdits, inflight, db0 >>

NextAdmin ==
    \/ CheckServerRequest
    \/ ClearSyncHash
    \/ EditPlaylist
    \/ Tick

SpecAdmin == Init /\ [][NextAdmin]_vars

\* ======================================================= emergency messages
\* message 1 with every combination of switch, window and targets
InitEmergency ==
    /\ now = 0
    /\ group = InitGroup(2)
    /\ assets = InitAssets("dict")
    /\ schedules = InitSchedules(TRUE)
    /\ playlists = InitPlaylists
    /\ items = InitItems
    /\ \E act \in BOOLEAN, st \in {0, 1}, et \in {NoneInt, 1, 2},
          gs \in { {}, {GroupId}, {2} },
          ps \in { {}, {"A1"}, {"B2"}, {"A1", "B2"} } :
           emergencyMessages =
               [ InitMessages EXCEPT ![1] = [ is_active |-> act, start_time |-> st,
                                              end_time |-> et, groups |-> gs,
                                              players |-> ps ] ]
    /\ systemCommands = InitCommands
    /\ players = [ d \in Devices |-> IF d = "A1" THEN FailedTwice ELSE NoPlayer ]
    /\ syncRequests = << >>
    /\ echo = [ d \in Devices |-> NoEcho ]
    /\ lastOp = "none"
    /\ lastResp = NoResponse
    /\ nEdits = 0
    /\ inflight = << >>
    /\ db0 = Db(players, syncRequests)
    /\ localFiles = NoFiles
    /\ client = NewClient

NextEmergency ==
    \/ CheckServerRequest
    \/ Tick

SpecEmergency == InitEmergency /\ [][NextEmergency]_vars

\* ================================= a request in flight while the catalog moves
\* a check_server of device A1 reaches the server
ArriveOne ==
    /\ inflight = << >>
    /\ Len(syncRequests) < MaxSyncRequests
    /\ \E b \in ConcCheckBodies : inflight' = << NewContext("check_server", b) >>
    /\ db0' = Db(players, syncRequests)
    /\ UNCHANGED << clientVars, now, catalogVars, emergencyMessages, systemCommands, players,
                    syncRequests, echo, lastOp, lastResp, nEdits >>

\* the handler runs step by step; nothing keeps an operator's save or the
\* clock from coming between two of its steps
NextInFlight ==
    \/ ArriveOne
    \/ WorkerStep
    \/ Retire
    \/ EditPlaylist
    \/ Tick

SpecInFlight == Init /\ [][NextInFlight]_vars

\* ================================================ saves of what the payload sends
\* an operator changes the group's configuration and saves it
SaveGroup ==
    \E saved \in { [ group EXCEPT !.screenshot_interval = IF @ = 3600 THEN 600 ELSE 3600 ],
                   [ group EXCEPT !.sync_interval = IF @ = 60 THEN 120 ELSE 60 ],
                   [ group EXCEPT !.audio_enabled = ~@ ] } :
        /\ nEdits < MaxEdits
        /\ nEdits' = nEdits + 1
        /\ group' = saved
        /\ lastOp' = "save_group"
        /\ lastResp' = [ status |-> "saved", at |-> now, item |-> 0, digest |-> EmptyHash ]
        /\ UNCHANGED << clientVars, now, playlists, items, assets, schedules,
                        emergencyMessages, systemCommands, players, syncRequests, echo,
                        inflight, db0 >>

\* an operator changes a playback option of a playlist and saves it, later
\* than its last save; updated_at is auto_now
SavePlaylistOptions ==
    \E p \in PlaylistIds :
      \E saved \in { [ playlists EXCEPT ![p].ticker_speed = IF @ = 5 THEN 9 ELSE 5 ],
                     [ playlists EXCEPT ![p].ticker_position = IF @ = 1 THEN 2 ELSE 1 ],
                     [ playlists EXCEPT ![p].shuffle_enabled = ~@ ],
                     [ playlists EXCEPT ![p].repeat_enabled = ~@ ] } :
        /\ nEdits < MaxEdits
        /\ playlists[p].updated_at < now
        /\ nEdits' = nEdits + 1
        /\ playlists' = [ saved EXCEPT ![p].updated_at = now ]
        /\ lastOp' = "save_playlist"
        /\ lastResp' = [ status |-> "saved", at |-> now, item |-> 0, digest |-> EmptyHash ]
        /\ UNCHANGED << clientVars, now, group, items, assets, schedules,
                        emergencyMessages, systemCommands, players, syncRequests, echo,
                        inflight, db0 >>

\* an operator changes a presentation option of a playlist item and saves
\* the item (PlaylistItem has no updated_at)
SaveItemOptions ==
    \E i \in ItemIds :
      \E saved \in { [ items EXCEPT ![i].transition_effect = IF @ = 0 THEN 1 ELSE 0 ],
                     [ items EXCEPT ![i].fullscreen = ~@ ],
                     [ items EXCEPT ![i].asset_ticker = IF @ = 0 THEN 1 ELSE 0 ],
                     [ items EXCEPT ![i].valid_until = IF @ = NoneInt THEN MaxClock
                                                       ELSE NoneInt ] } :
        /\ nEdits < MaxEdits
        /\ nEdits' = nEdits + 1
        /\ items' = saved
        /\ lastOp' = "save_item"
        /\ lastResp' = [ status |-> "saved", at |-> now, item |-> i, digest |-> EmptyHash ]
        /\ UNCHANGED << clientVars, now, group, playlists, assets, schedules,
                        emergencyMessages, systemCommands, players, syncRequests, echo,
                        inflight, db0 >>

NextCover ==
    \/ SaveGroup
    \/ SavePlaylistOptions
    \/ SaveItemOptions
    \/ ComputeDigest
    \/ ClockTick

SpecCover == InitDigest /\ [][NextCover]_vars

\* ============================================== failure counter and the handlers
NextCounter ==
    \/ IncrementSyncFailures
    \/ AdminResetSyncFailures
    \/ CheckServerRequest
    \/ SyncConfirmationRequest
    \/ Tick

SpecCounter == Init /\ [][NextCounter]_vars

\* ============================================================ system commands
\* the command with every status, due time and set of targets
InitPending ==
    /\ now = 0
    /\ group = InitGroup(2)
    /\ assets = InitAssets("dict")
    /\ schedules = InitSchedules(TRUE)
    /\ playlists = InitPlaylists
    /\ items = InitItems
    /\ emergencyMessages = InitMessages
    /\ \E st \in {"pending", "executed"}, at \in 0..MaxNow,
          ps \in { {}, {"A1"}, {"B2"}, {"A1", "B2"} } :
           systemCommands =
               [ k \in CommandIds |-> [ status |-> st, scheduled_at |-> at,
                                        players |-> ps ] ]
    /\ players = [ d \in Devices |-> IF d = "A1" THEN FailedTwice ELSE NoPlayer ]
    /\ syncRequests = << >>
    /\ echo = [ d \in Devices |-> NoEcho ]
    /\ lastOp = "none"
    /\ lastResp = NoResponse
    /\ nEdits = 0
    /\ inflight = << >>
    /\ db0 = Db(players, syncRequests)
    /\ localFiles = NoFiles
    /\ client = NewClient

\* an operator changes the status of a command and saves it
SaveCommand ==
    \E k \in CommandIds :
      \E st \in {"pending", "sent", "executed"} \ { systemCommands[k].status } :
        /\ nEdits < MaxEdits
        /\ nEdits' = nEdits + 1
        /\ systemCommands' = [ systemCommands EXCEPT ![k].status = st ]
        /\ lastOp' = "save_command"
        /\ UNCHANGED << clientVars, now, catalogVars, emergencyMessages, players,
                        syncRequests, echo, lastResp, inflight, db0 >>

NextCommands ==
    \/ CheckServerRequest
    \/ SaveCommand
    \/ Tick

SpecCommands == InitPending /\ [][NextCommands]_vars

\* ================================================= the simulator's signals
\* the simulator with the digests it adopted from needs_sync responses and
\* the digests it sent in sync_confirmation requests, in order; due says
\* that the sync timer has fired and its slot has not run yet
NewSimulator ==
    [ last_sync_hash |-> EmptyHash, polls |-> 0, edited |-> FALSE,
      adopted |-> << >>, confirmed |-> << >>, due |-> FALSE ]

InitSimulator ==
    /\ now = 0
    /\ \E k \in InitCases, c2 \in {0, 22} :
           /\ group = InitGroup(k[1])
           /\ assets = [ InitAssets(k[2]) EXCEPT ![2].checksum = c2, ![2].file_size = 2048 ]
           /\ schedules = InitSchedules(k[3])
    /\ playlists = InitPlaylists
    /\ items = InitItems
    /\ emergencyMessages = InitMessages
    /\ systemCommands = InitCommands
    /\ players = [ d \in Devices |-> IF d = "A1" THEN FailedTwice ELSE NoPlayer ]
    /\ syncRequests = << >>
    /\ echo = [ d \in Devices |-> NoEcho ]
    /\ lastOp = "none"
    /\ lastResp = NoResponse
    /\ nEdits = 0
    /\ inflight = << >>
    /\ db0 = Db(players, syncRequests)
    /\ localFiles = NoFiles
    /\ client = NewSimulator

\* the slots connected to each sync_completed signal (_connect_signals and
\* the main window)
Connections ==
    [ signal \in {"DeviceSimulator.sync_completed", "SyncManager.sync_completed"} |->
        IF signal = "DeviceSimulator.sync_completed"
        THEN {"MainWindow.on_sync_completed"}
        ELSE {"DeviceSimulator._on_sync_completed"} ]

\* the signal _process_sync_data emits when it has gone through the payload
ProcessEmits == "DeviceSimulator.sync_completed"

\* SyncManager.send_confirmation: the server handles a sync_confirmation
\* carrying the digest the manager keeps
send_confirmation(db, hash) ==
    Run(db, NewContext("sync_confirmation",
                       [ NoRequest EXCEPT !.parse = "ok", !.device_id = << "A1" >>,
                                          !.sync_hash = << hash >> ]))

\* the sync timer fires
TimerFires ==
    /\ ~client.due
    /\ Len(syncRequests) < MaxPolls
    /\ client' = [ client EXCEPT !.due = TRUE ]
    /\ UNCHANGED << now, catalogVars, emergencyMessages, systemCommands, players,
                    syncRequests, echo, lastOp, lastResp, nEdits, inflight, db0,
                    localFiles >>

\* the timer's slot: _periodic_sync, _process_sync_data on needs_sync, and
\* the slots of the emitted signal, run within the emit
SimulatorSync ==
    /\ client.due
    /\ \E reachable \in BOOLEAN :
         \E r \in { Run(Db(players, syncRequests),
                        NewContext("check_server",
                                   CheckBody(<< "A1" >>, << client.last_sync_hash >>, "object"))) } :
           \E res \in { check_server(r.c.response, client.last_sync_hash) } :
             \E d \in { download_assets(IF res.needs_sync THEN res.sync_data[1].assets
                                        ELSE << >>, localFiles, reachable) } :
               \E confirms \in { res.needs_sync /\ "DeviceSimulator._on_sync_completed"
                                                       \in Connections[ProcessEmits] } :
                 \E after \in { IF confirms
                                THEN send_confirmation(r.db, res.last_sync_hash).db
                                ELSE r.db } :
                    /\ players' = after.players
                    /\ syncRequests' = after.syncRequests
                    /\ client' = [ client EXCEPT
                                     !.last_sync_hash = res.last_sync_hash,
                                     !.polls = @ + 1,
                                     !.due = FALSE,
                                     !.adopted = IF res.needs_sync
                                                 THEN Append(@, res.last_sync_hash) ELSE @,
                                     !.confirmed = IF confirms
                                                   THEN Append(@, res.last_sync_hash)
                                                   ELSE @ ]
                    /\ localFiles' = d.files
                    /\ lastOp' = "periodic_sync"
                    /\ lastResp' = [ status |-> "polled", http |-> r.c.response.http,
                                     needs_sync |-> res.needs_sync,
                                     assets |-> IF res.needs_sync
                                                THEN res.sync_data[1].assets ELSE << >>,
                                     before |-> localFiles,
                                     skipped |-> d.skipped, fetched |-> d.fetched ]
    /\ UNCHANGED << now, catalogVars, emergencyMessages, systemCommands, echo,
                    nEdits, inflight, db0 >>

NextSimulator ==
    \/ TimerFires
    \/ SimulatorSync
    \/ OperatorEdit
    \/ ClientTick

\* the sync timer keeps firing while the simulator runs
SpecSimulator == InitSimulator /\ [][NextSimulator]_vars /\ WF_vars(TimerFires)

\* ================================================================== claims
\* the handler's result for a request arriving in the current state
CheckRun(body) == Run(Db(players, syncRequests), NewContext("check_server", body))

\* the digest the server computes for a registered device in the current state
ServerDigest(d) ==
    calculate_player_sync_hash(d, players[d], group, playlists, items, assets,
                               schedules, now)

\* requests of a registered device that pass the health update
WellFormed(body) ==
    /\ body.parse = "ok"
    /\ Registered(Db(players, syncRequests), Get(body.device_id, ""))
    /\ body.device_health # "null"

\* C1: a registered device presenting the digest the server computes for it
\* gets needs_sync = false and no sync_data, and its stored last_sync_hash
\* and last_sync are what they were before the request.
C1_IdempotentNoOp ==
    \A body \in CheckBodies :
        (WellFormed(body)
           /\ Get(body.last_sync_hash, EmptyHash) = ServerDigest(body.device_id[1]))
        => LET r == CheckRun(body)
               d == body.device_id[1]
           IN  /\ r.c.response.status = "success"
               /\ ~r.c.response.needs_sync
               /\ r.c.response.sync_data = << >>
               /\ r.db.players[d].last_sync_hash = players[d].last_sync_hash
               /\ r.db.players[d].last_sync = players[d].last_sync

\* a no-op check_server was answered while the stored digest is another one
C1_Witness ==
    /\ lastOp = "check_server"
    /\ lastResp.status = "success"
    /\ ~lastResp.needs_sync
    /\ players["A1"].last_sync_hash = BogusHash
    /\ players["A1"].last_sync # now

\* C2: a check_server of a registered device whose last_sync_hash is empty or
\* absent decides needs_sync = true in every catalog and group state, and
\* every answer it gets with status success carries needs_sync = true.
C2_Bootstrap ==
    \A body \in CheckBodies :
        (WellFormed(body) /\ Get(body.last_sync_hash, EmptyHash) = EmptyHash)
        => LET r == CheckRun(body)
           IN  /\ r.c.needs_sync
               /\ r.c.response.status = "success" => r.c.response.needs_sync

\* an empty digest was answered with needs_sync = true for a group that has
\* no active schedule and no default playlist
C2_Witness ==
    /\ lastOp = "check_server"
    /\ lastResp.status = "success"
    /\ lastResp.needs_sync
    /\ syncRequests # << >>
    /\ syncRequests[Len(syncRequests)].client_sync_hash = EmptyHash
    /\ group.default_playlist = 0
    /\ ActivePlaylist = 0

\* C3 (as stated): when a device presents the digest D of its last
\* needs_sync = true response and the catalog was not edited in between, the
\* answer has needs_sync = false, next_check_interval equal to the group's
\* sync_interval and no sync_data.
C3_EchoAsStated ==
    (echo["A1"].hash # << >> /\ echo["A1"].valid)
    => LET r == CheckRun(CheckBody(<< "A1" >>, echo["A1"].hash, "object"))
       IN  /\ r.c.response.status = "success"
           /\ ~r.c.response.needs_sync
           /\ r.c.response.next_check_interval = group.sync_interval
           /\ r.c.response.sync_data = << >>

\* C3 (amended): the same, when in addition the schedule resolver gives the
\* group the same playlist as at the time of that response.
C3_EchoRoundTrip ==
    (echo["A1"].hash # << >> /\ echo["A1"].valid /\ echo["A1"].playlist = ActivePlaylist)
    => LET r == CheckRun(CheckBody(<< "A1" >>, echo["A1"].hash, "object"))
       IN  /\ r.c.response.status = "success"
           /\ ~r.c.response.needs_sync
           /\ r.c.response.next_check_interval = group.sync_interval
           /\ r.c.response.sync_data = << >>

\* the second request of the round trip was answered: the digest of an
\* earlier needs_sync = true response came back and no sync was needed
C3_Witness ==
    /\ lastOp = "check_server"
    /\ lastResp.status = "success"
    /\ ~lastResp.needs_sync
    /\ lastResp.next_check_interval = group.sync_interval
    /\ echo["A1"].valid
    /\ Len(syncRequests) = 2
    /\ syncRequests[1].needs_sync
    /\ << syncRequests[2].client_sync_hash >> = echo["A1"].hash
    /\ syncRequests[1].server_sync_hash = syncRequests[2].client_sync_hash

\* C4: a well-formed check_server for a device_id that matches no Player is
\* answered with status device_not_registered, which is not the error
\* status, and creates or changes no Player row and no SyncRequest row.
C4_Unregistered ==
    \A body \in CheckBodies :
        (body.parse = "ok" /\ Get(body.device_id, "") # ""
           /\ ~Registered(Db(players, syncRequests), body.device_id[1]))
        => LET r == CheckRun(body)
           IN  /\ r.c.response.status = "device_not_registered"
               /\ r.c.response.status # "error"
               /\ r.db = Db(players, syncRequests)

\* an unknown device was answered
C4_Witness ==
    /\ lastOp = "check_server"
    /\ lastResp.status = "device_not_registered"
    /\ ~players["B2"].exists

C7_Malformed ==
    \A body \in CheckBodies :
        (body.parse # "ok" \/ Get(body.device_id, "") = "")
        => LET r == CheckRun(body)
           IN  /\ r.c.response.status = "error"
               /\ r.db = Db(players, syncRequests)

\* a request without device_id was rejected
C7_Witness ==
    /\ lastOp = "check_server"
    /\ lastResp.status = "error"
    /\ lastResp.message = "device_id is required"

\* C8: when check_server answers a registered device with needs_sync = true,
\* the stored last_sync_hash is the digest computed in the request, which is
\* the new_sync_hash of the response, sync_fail_count is 0 and last_sync is
\* the time of the request.
C8_TriggeredSync ==
    \A body \in CheckBodies :
        LET r == CheckRun(body)
        IN  (r.c.response.status = "success" /\ r.c.response.needs_sync)
            => /\ r.db.players[r.c.device_id].last_sync_hash = ServerDigest(r.c.device_id)
               /\ r.c.response.new_sync_hash = << ServerDigest(r.c.device_id) >>
               /\ r.db.players[r.c.device_id].sync_fail_count = 0
               /\ r.db.players[r.c.device_id].last_sync = now

\* a sync was triggered for a device whose stored digest was another one
C8_Witness ==
    /\ lastOp = "check_server"
    /\ lastResp.status = "success"
    /\ lastResp.needs_sync
    /\ << players["A1"].last_sync_hash >> = lastResp.new_sync_hash
    /\ players["A1"].sync_fail_count = 0
    /\ players["A1"].last_sync = now
    /\ Len(syncRequests) = 2

\* C9: for a device and a server state, two check_server requests that
\* differ in the presented digest carry the same emergency_messages and the
\* same system_commands, whether needs_sync is true or false.
C9_ListsIndependent ==
    \A b1, b2 \in CheckBodies :
        (WellFormed(b1) /\ WellFormed(b2) /\ b1.device_id = b2.device_id)
        => LET r1 == CheckRun(b1)
               r2 == CheckRun(b2)
           IN  (r1.c.response.status = "success" /\ r2.c.response.status = "success")
               => /\ r1.c.response.emergency_messages = r2.c.response.emergency_messages
                  /\ r1.c.response.system_commands = r2.c.response.system_commands

\* a response without sync carried both lists, and in the state before it a
\* request with another digest would have triggered a sync
C9_Witness ==
    /\ lastOp = "check_server"
    /\ lastResp.status = "success"
    /\ ~lastResp.needs_sync
    /\ lastResp.emergency_messages # << >>
    /\ lastResp.system_commands # << >>
    /\ CheckRun(CheckBody(<< "A1" >>, << EmptyHash >>, "object")).c.response.needs_sync

\* the two requests in flight, handled one after the other from the state
\* in which they arrived
Serial(first, second) ==
    LET r1 == Run(db0, NewContext(inflight[first].kind, inflight[first].body))
    IN  Run(r1.db, NewContext(inflight[second].kind, inflight[second].body))

\* C6: when two requests of the same registered device were handled
\* concurrently, the Player row is the row that handling them in one of the
\* two serial orders produces.
C6_Serializable ==
    (inflight # << >> /\ \A i \in DOMAIN inflight : inflight[i].pc = "done")
    => \/ players["A1"] = Serial(1, 2).db.players["A1"]
       \/ players["A1"] = Serial(2, 1).db.players["A1"]

Candidates ==
    { s \in DOMAIN schedules : /\ schedules[s].group = GroupId
                               /\ schedules[s].is_active
                               /\ is_active_now(schedules[s], now) }

\* C11: the resolver returns the playlist of the candidate that no other
\* candidate precedes in (priority descending, id descending) order: the
\* higher priority wins whichever was created first, and of two with equal
\* priority the greater id wins.
C11_ResolutionOrder ==
    \A s \in Candidates :
        (\A o \in Candidates \ {s} :
            \/ schedules[s].priority > schedules[o].priority
            \/ schedules[s].priority = schedules[o].priority /\ s > o)
        => get_active_playlist_for_group(group, schedules, now) = schedules[s].playlist

\* the resolver was called with two candidates of equal priority and
\* returned the playlist of the one created later
C11_Witness ==
    /\ lastOp = "resolve"
    /\ Candidates = {1, 2}
    /\ schedules[1].priority = schedules[2].priority
    /\ lastResp.playlist = schedules[2].playlist
    /\ lastResp.playlist = get_active_playlist_for_group(group, schedules, now)

\* the date range and the weekday set of schedule s admit the current day
DayAdmitted(s) ==
    /\ s.start_date = NoneInt \/ DateOf(now) >= s.start_date
    /\ s.end_date = NoneInt \/ DateOf(now) <= s.end_date
    /\ s.days_of_week = {} \/ IsoWeekday(now) \in s.days_of_week

C13_ResolverFallback ==
    Candidates = {}
    => LET sd == HashSyncData("A1", players["A1"], group, playlists, items, assets,
                              schedules, now)
           payload == generate_sync_data(players["A1"], group, playlists, items, assets,
                                         schedules, now)
       IN  /\ get_active_playlist_for_group(group, schedules, now) = group.default_playlist
           /\ IF group.default_playlist = 0
              THEN /\ sd.playlist = << >>
                   /\ sd.assets = << >>
                   /\ payload.playlists = << >>
              ELSE /\ Len(sd.playlist) = 1
                   /\ sd.playlist[1].id = group.default_playlist
                   /\ Len(payload.playlists) = 1
                   /\ payload.playlists[1].data.id = group.default_playlist

\* the resolver was called for a group without schedules and without
\* default playlist
C13_Witness ==
    /\ lastOp = "resolve"
    /\ \A s \in DOMAIN schedules : schedules[s].group # GroupId
    /\ group.default_playlist = 0
    /\ lastResp.playlist = 0

\* the digest of device A1 at time t, the catalog being what it is now
DigestAt(t) ==
    calculate_player_sync_hash("A1", players["A1"], group, playlists, items, assets,
                               schedules, t)

\* the playlist the digest of time t is built from
PlaylistAt(t) ==
    LET resolved == get_active_playlist_for_group(group, schedules, t)
    IN  IF resolved = 0 THEN group.default_playlist ELSE resolved

Structure(itm, ast) ==
    HashSyncData("A1", players["A1"], group, playlists, itm, ast, schedules, now)

\* does the item play a video that has a duration of its own
IntrinsicDuration(i) ==
    is_video(assets[items[i].asset]) /\ assets[items[i].asset].duration # 0

OrderChanges(i) ==
    \A o \in ItemOrders \ {items[i].order} :
        Structure([ items EXCEPT ![i].order = o ], assets) # Structure(items, assets)

ZoneChanges(i) ==
    \A z \in ItemZones \ {items[i].zone} :
        Structure([ items EXCEPT ![i].zone = z ], assets) # Structure(items, assets)

DurationChanges(i) ==
    \A d \in ItemDurations \ {items[i].duration} :
        Structure([ items EXCEPT ![i].duration = d ], assets) # Structure(items, assets)

ChecksumChanges(i) ==
    \A c \in Checksums \ {assets[items[i].asset].checksum} :
        Structure(items, [ assets EXCEPT ![items[i].asset].checksum = c ])
            # Structure(items, assets)

\* C15 as stated: for every item of the active playlist, whatever the type
\* of its asset, a change of its order, zone or duration or of its asset's
\* checksum changes the structure the digest is computed from.
C15_SensitivityAsStated ==
    \A i \in ItemsOf(items, ActivePlaylist) :
        OrderChanges(i) /\ ZoneChanges(i) /\ DurationChanges(i) /\ ChecksumChanges(i)

\* C15, amended: for every item of the active playlist a change of its
\* order, of its zone or of its asset's checksum changes the structure; a
\* change of its duration changes the structure unless its asset is a video
\* with a duration of its own, and then it leaves the structure as it was.
C15_Sensitivity ==
    \A i \in ItemsOf(items, ActivePlaylist) :
        /\ OrderChanges(i) /\ ZoneChanges(i) /\ ChecksumChanges(i)
        /\ IF IntrinsicDuration(i)
           THEN \A d \in ItemDurations :
                    Structure([ items EXCEPT ![i].duration = d ], assets)
                        = Structure(items, assets)
           ELSE DurationChanges(i)

\* an item of the active playlist that plays a video without a duration of
\* its own was saved, and the digest is no longer the one before the save
C15_Witness ==
    /\ lastOp = "save_item"
    /\ lastResp.item \in ItemsOf(items, ActivePlaylist)
    /\ is_video(assets[items[lastResp.item].asset])
    /\ ~IntrinsicDuration(lastResp.item)
    /\ lastResp.digest # DigestAt(now)

\* the handler's result for a confirmation arriving in the current state
ConfirmRun(body) ==
    Run(Db(players, syncRequests), NewContext("sync_confirmation", body))

\* C16: a sync_confirmation of a registered device that reports digest h is
\* answered with success and leaves the Player with last_sync_hash = h,
\* sync_fail_count = 0, last_sync = the time of the request and status
\* online, whether or not h is the digest the server computes for the device.
C16_ConfirmationTrusted ==
    \A body \in ConfirmBodies :
        ( /\ body.parse = "ok"
          /\ body.device_id # << >>
          /\ Registered(Db(players, syncRequests), Get(body.device_id, ""))
          /\ body.sync_hash # << >> )
        => \A r \in { ConfirmRun(body) } :
               LET p == r.db.players[body.device_id[1]]
               IN  /\ r.c.response.status = "success"
                   /\ p.last_sync_hash = body.sync_hash[1]
                   /\ p.sync_fail_count = 0
                   /\ p.last_sync = now
                   /\ p.status = "online"

\* a confirmation with a digest the server never computed was accepted
C16_Witness ==
    /\ lastOp = "sync_confirmation"
    /\ lastResp.status = "success"
    /\ now > 0
    /\ players["A1"].last_sync_hash = BogusHash
    /\ BogusHash # ServerDigest("A1")
    /\ players["A1"].sync_fail_count = 0
    /\ players["A1"].last_sync = now
    /\ players["A1"].status = "online"

\* C17: a call of increment_sync_failures adds one to the counter; when the
\* new count is 5 or more the status is error, when it is below 5 the status
\* is the one before the call; the row is saved with both.
C17_FailureThreshold ==
    \A d \in Devices :
        players[d].exists
        => \A r \in { increment_sync_failures(Db(players, syncRequests), d, players[d]) } :
               /\ r.player.sync_fail_count = players[d].sync_fail_count + 1
               /\ r.player.sync_fail_count >= 5 => r.player.status = "error"
               /\ r.player.sync_fail_count < 5 => r.player.status = players[d].status
               /\ r.db.players[d] = r.player

\* the call that raised the counter of an online device to 5 was made
C17_Witness ==
    /\ lastOp = "increment_sync_failures"
    /\ lastResp.device_id = "A1"
    /\ lastResp.player.sync_fail_count = 4
    /\ lastResp.player.status = "online"
    /\ players["A1"].sync_fail_count = 5
    /\ players["A1"].status = "error"

\* the players table with another counter and status for device A1
WithFailures(count, status) ==
    [ players EXCEPT !["A1"].sync_fail_count = count, !["A1"].status = status ]

\* C18: a check_server request gets the same answer (HTTP status, status,
\* needs_sync, sync_data, new_sync_hash) in the current state and in the
\* states that differ from it only in device A1's sync_fail_count and status.
C18_CounterAdvisory ==
    \A body \in CheckBodies :
        \A here \in { CheckRun(body).c.response } :
            \A other \in { Run(Db(WithFailures(0, "online"), syncRequests),
                               NewContext("check_server", body)).c.response,
                           Run(Db(WithFailures(FailThreshold, "error"), syncRequests),
                               NewContext("check_server", body)).c.response } :
                /\ other.http = here.http
                /\ other.status = here.status
                /\ other.needs_sync = here.needs_sync
                /\ other.sync_data = here.sync_data
                /\ other.new_sync_hash = here.new_sync_hash

\* device A1, whose counter had reached the threshold, polled with the
\* current digest and was answered like any other device (the answer does
\* not reset the counter, so it still shows)
C18_Witness ==
    /\ lastOp = "check_server"
    /\ lastResp.status = "success"
    /\ ~lastResp.needs_sync
    /\ players["A1"].sync_fail_count >= FailThreshold
    /\ Len(syncRequests) > 0
    /\ syncRequests[Len(syncRequests)].player = "A1"

\* C19: in a sync, an asset of the payload is skipped exactly when the
\* asset directory held a file for it whose SHA-256 is the checksum the
\* payload declares; a file with another hash is requested again.
C19_SkipByChecksum ==
    lastOp = "periodic_sync"
    => \A k \in 1..Len(lastResp.assets) :
           LET a == lastResp.assets[k].id
               file == lastResp.before[a]
               matches == file.exists /\ file.sha256 = lastResp.assets[k].checksum
           IN  /\ a \in lastResp.skipped <=> matches
               /\ (file.exists /\ ~matches) => a \in lastResp.fetched

C21_ClearForcesSync ==
    lastOp = "clear_sync_hash"
    => \A body \in CheckBodies :
           ( /\ WellFormed(body)
             /\ body.device_id = << lastResp.device_id >> )
           => \A r \in { CheckRun(body) } :
                  /\ r.c.response.status = "success"
                  /\ r.c.response.needs_sync
                  /\ r.c.response.sync_data # << >>

\* C22: a check_server answered with status success adds exactly one
\* SyncRequest row, for the device of the request, and leaves the older rows
\* alone; the row's client_sync_hash is the digest presented, its needs_sync
\* the response's, its server_sync_hash the digest the server computes for
\* the device, and its response_timestamp the time of the request.
C22_AuditRecord ==
    \A body \in CheckBodies :
        \A r \in { CheckRun(body) } :
            r.c.response.status = "success"
            => LET n == Len(syncRequests)
                   rows == r.db.syncRequests
               IN  /\ Len(rows) = n + 1
                   /\ SubSeq(rows, 1, n) = syncRequests
                   /\ rows[n + 1].player = body.device_id[1]
                   /\ rows[n + 1].client_sync_hash = Get(body.last_sync_hash, EmptyHash)
                   /\ rows[n + 1].needs_sync = r.c.response.needs_sync
                   /\ rows[n + 1].server_sync_hash = ServerDigest(body.device_id[1])
                   /\ rows[n + 1].response_timestamp = now

\* a second poll, with a stale digest, was answered with a payload and left
\* its own row behind the first one
C22_Witness ==
    /\ lastOp = "check_server"
    /\ lastResp.status = "success"
    /\ lastResp.needs_sync
    /\ Len(syncRequests) = 2
    /\ syncRequests[2].player = "A1"
    /\ syncRequests[2].needs_sync
    /\ syncRequests[2].client_sync_hash # EmptyHash
    /\ syncRequests[2].client_sync_hash # syncRequests[2].server_sync_hash
    /\ << syncRequests[2].server_sync_hash >> = lastResp.new_sync_hash
    /\ syncRequests[2].response_timestamp = now

\* C23: in a response with needs_sync = true, sync_data.playlists is empty
\* when no playlist resolves and otherwise holds the resolved playlist alone,
\* with all its items; every asset_id of its items is the id of an entry of
\* sync_data.assets.
C23_PayloadComplete ==
    \A body \in CheckBodies :
        \A r \in { CheckRun(body) } :
            (r.c.response.status = "success" /\ r.c.response.needs_sync)
            => /\ r.c.response.sync_data # << >>
               /\ \A sd \in { r.c.response.sync_data[k] : k \in 1..Len(r.c.response.sync_data) } :
                    IF ActivePlaylist = 0
                    THEN sd.playlists = << >>
                    ELSE /\ Len(sd.playlists) = 1
                         /\ sd.playlists[1].data.id = ActivePlaylist
                         /\ { sd.playlists[1].data.items[k].id :
                                k \in 1..Len(sd.playlists[1].data.items) }
                              = ItemsOf(items, ActivePlaylist)
                         /\ \A k \in 1..Len(sd.playlists[1].data.items) :
                              \E j \in 1..Len(sd.assets) :
                                  sd.assets[j].id = sd.playlists[1].data.items[k].asset_id

\* a first poll, without digest, was answered with one playlist of two
\* items and with two assets
C23_Witness ==
    /\ lastOp = "check_server"
    /\ lastResp.status = "success"
    /\ lastResp.needs_sync
    /\ Len(syncRequests) = 1
    /\ syncRequests[1].client_sync_hash = EmptyHash
    /\ Len(lastResp.sync_data) = 1
    /\ Len(lastResp.sync_data[1].playlists) = 1
    /\ Len(lastResp.sync_data[1].playlists[1].data.items) = 2
    /\ Len(lastResp.sync_data[1].assets) = 2

\* how often x occurs in the list
Occurrences(list, x) == Cardinality({ k \in 1..Len(list) : list[k] = x })

\* the claim's condition: the message targets the device, directly or
\* through its group, is switched on, has started and has not ended
Eligible(m, device_id) ==
    /\ device_id \in emergencyMessages[m].players \/ GroupId \in emergencyMessages[m].groups
    /\ emergencyMessages[m].is_active
    /\ emergencyMessages[m].start_time <= now
    /\ emergencyMessages[m].end_time = NoneInt \/ emergencyMessages[m].end_time > now

\* C24: the emergency_messages of a successful check_server response hold
\* every message that targets the device, directly or through its group,
\* and is active with start_time <= now and end_time null or > now, once
\* each, and no other message.
C24_EmergencySelection ==
    \A body \in CheckBodies :
        \A r \in { CheckRun(body) } :
            r.c.response.status = "success"
            => \A m \in MessageIds :
                   Occurrences(r.c.response.emergency_messages, m)
                       = IF Eligible(m, body.device_id[1]) THEN 1 ELSE 0

\* device A1 polled while message 1, which targets it directly, together
\* with another device, and through its group, was active: it is listed once
C24_Witness ==
    /\ lastOp = "check_server"
    /\ lastResp.status = "success"
    /\ syncRequests[Len(syncRequests)].player = "A1"
    /\ emergencyMessages[1].players = {"A1", "B2"}
    /\ GroupId \in emergencyMessages[1].groups
    /\ Eligible(1, "A1")
    /\ Occurrences(lastResp.emergency_messages, 1) = 1

\* the Playlist tables the model can be in: the initial one and the ones
\* after one save
PlaylistVersions ==
    {InitPlaylists}
    \cup { [ InitPlaylists EXCEPT ![p].ticker_enabled = ~@, ![p].updated_at = t ] :
             p \in PlaylistIds, t \in 0..MaxNow }

\* C25: when a check_server is answered with needs_sync = true, there is one
\* catalog and one time at which new_sync_hash is the device's digest and
\* the playlists, assets and config of sync_data are the device's payload.
C25_DigestMatchesPayload ==
    \A i \in DOMAIN inflight :
        ( /\ inflight[i].kind = "check_server"
          /\ inflight[i].pc = "done"
          /\ inflight[i].response.status = "success"
          /\ inflight[i].response.needs_sync )
        => \E pls \in PlaylistVersions, t \in 0..MaxNow :
               \E payload \in { generate_sync_data(players["A1"], group, pls, items,
                                                   assets, schedules, t) } :
                   /\ inflight[i].response.new_sync_hash
                        = << calculate_player_sync_hash("A1", players["A1"], group, pls,
                                 items, assets, schedules, t) >>
                   /\ inflight[i].response.sync_data[1].playlists = payload.playlists
                   /\ inflight[i].response.sync_data[1].assets = payload.assets
                   /\ inflight[i].response.sync_data[1].config_updates
                        = payload.config_updates

\* what sync_data tells device A1 to show: everything but the time stamps
PayloadContent ==
    LET sd == generate_sync_data(players["A1"], group, playlists, items, assets,
                                 schedules, now)
    IN  [ config_updates |-> sd.config_updates, playlists |-> sd.playlists,
          assets |-> sd.assets ]

\* the structure the digest of device A1 is computed from now
CurrentStructure ==
    HashSyncData("A1", players["A1"], group, playlists, items, assets, schedules, now)

\* C26: a step that changes the content of the sync_data device A1 would be
\* sent (config_updates, the playlist's options, an item's options) also
\* changes the structure its digest is computed from.
C26_DigestCoversPayload ==
    [][ PayloadContent' # PayloadContent => CurrentStructure' # CurrentStructure ]_vars

\* C27: in every state reached through increment_sync_failures,
\* reset_sync_failures, check_server and sync_confirmation, a device whose
\* sync_fail_count is FailThreshold or more has status error.
C27_ErrorTracksCounter ==
    \A d \in Devices :
        (players[d].exists /\ players[d].sync_fail_count >= FailThreshold)
            => players[d].status = "error"

\* C28: a check_server request leaves every SystemCommand as it was, and its
\* success response lists every command that is pending, due
\* (scheduled_at <= now) and targeted at the polling device; so such a
\* command is listed in every response of the device until something else
\* changes its status.
C28_CommandsStayPending ==
    [][ Len(syncRequests') > Len(syncRequests) =>
          /\ systemCommands' = systemCommands
          /\ lastResp'.status = "success" =>
               \A k \in CommandIds :
                   ( /\ systemCommands[k].status = "pending"
                     /\ systemCommands[k].scheduled_at <= now
                     /\ syncRequests'[Len(syncRequests')].player
                            \in systemCommands[k].players )
                   => \E n \in DOMAIN lastResp'.system_commands :
                          lastResp'.system_commands[n] = k ]_vars

\* the second poll of device A1 lists the command its first poll already
\* listed: the command was due at the first poll and is still pending
C28_Witness ==
    /\ lastOp = "check_server"
    /\ lastResp.status = "success"
    /\ Len(syncRequests) = 2
    /\ syncRequests[1].player = "A1"
    /\ syncRequests[2].player = "A1"
    /\ syncRequests[2].response_timestamp = now
    /\ systemCommands[1].status = "pending"
    /\ systemCommands[1].scheduled_at <= syncRequests[1].request_timestamp
    /\ systemCommands[1].scheduled_at = syncRequests[2].request_timestamp
    /\ "A1" \in systemCommands[1].players
    /\ lastResp.system_commands = << 1 >>

\* the assets of the last poll's payload whose download was attempted and
\* left no file
FailedDownloads ==
    { a \in lastResp.fetched : ~localFiles[a].exists }

\* C29: after a poll answered with needs_sync = true in which the download
\* of an asset failed, the digest the simulator keeps is still the one it
\* presented at that poll, and its next poll is answered with
\* needs_sync = true again.
C29_FailedDownloadRetried ==
    (lastOp = "periodic_sync" /\ lastResp.needs_sync /\ FailedDownloads # {})
    => /\ client.last_sync_hash = syncRequests[Len(syncRequests)].client_sync_hash
       /\ \A r \in { CheckRun(CheckBody(<< "A1" >>, << client.last_sync_hash >>,
                                        "object")) } :
              r.c.response.status = "success" => r.c.response.needs_sync

====
